---- MODULE Spec2Model ----
(***************************************************************************)
(* A model of jii-ar-sql: the ActiveQuery relation machinery (joinWith     *)
(* expansion, lazy prepare, relation hydration with buckets, inverse       *)
(* relations, duplicate removal), the MySQL schema loader and the MySQL    *)
(* connection's exec.                                                      *)
(*                                                                         *)
(* Every group of variables belongs to one specification; the other        *)
(* specifications leave it at its initial value.                           *)
(***************************************************************************)
EXTENDS Integers, Sequences, FiniteSets, TLC

VARIABLES
    \* ---- ActiveQuery as a primary (non relational) query: joinWith / prepare
    aqJoin,        \* this._join: sequence of join entries [type, table, on]
    aqJoinWith,    \* this._joinWith: sequence of queued [with, eager, type]
    aqWith,        \* this._with: sequence of relation names to eager load
    aqFrom,        \* this._from
    aqSelect,      \* this._select
    buildLog,      \* history: what the successive prepare() calls produced
    \* ---- Jii.sql.mysql.Connection
    execCalls,     \* the exec() calls: method, and the promise's outcome
    \* ---- Jii.sql.mysql.Schema
    dbTables,      \* the tables that exist in the database right now
    ddlCount,      \* how many tables were dropped or created so far
    loads,         \* the _loadTableSchema() calls: position, table, outcome
    \* ---- ActiveQuery.findWith / populateRelation (eager loading)
    scn,           \* the primary models, the relations of with() and their tables
    rel,           \* each relation's query: position, _where, models, results
    fw,            \* findWith: not called, its promises pending, or thrown
    queryLog,      \* the queries issued so far, in order
    \* ---- ActiveQuery.findFor / prepare (lazy loading)
    lq,            \* the relation query: declaration, tables, _where
    calls,         \* the findFor() calls on it: position in prepare(), results
    lazyLog,       \* the queries issued so far, in order
    \* ---- ActiveQuery.populate
    pop,           \* one populate() call: rows, settings, position, models
    \* ---- Jii.sql.BaseSchema: the caches of loadTableSchema / loadTableNames
    tablesCache,   \* this._tables: for every name, whether cached and the value
    namesCache,    \* this._tableNames: for every schema key, whether cached and the names
    ops,           \* the loadTableSchema / loadTableNames / loadTableSchemas calls
    \* ---- Jii.sql.TableSchema.fixPrimaryKey
    tbl,           \* a TableSchema, the fixPrimaryKey() calls on it and whether the last threw
    \* ---- a condition, compiled to SQL or evaluated against a row
    cnd,           \* a condition, the call made with it and its result
    \* ---- a column and the value typecast() is applied to
    cast,          \* a ColumnSchema, a value and the results of typecast() on it
    \* ---- a table name and the results of quoting it
    quoted,        \* a table name and the results of quoteTableName() on it
    \* ---- a call of a method of the MySQL query builder
    qb,            \* the call of a method of Jii.sql.mysql.QueryBuilder, its queries and its result
    \* ---- a column schema builder
    csb,           \* a Jii.sql.ColumnSchemaBuilder, the calls made on it and the string it gave
    \* ---- a run of the migrate command
    mig            \* the migrate controller in an action: the history, the queue of migrations, what was run, the exit code

joinVars == <<aqJoin, aqJoinWith, aqWith, aqFrom, aqSelect, buildLog>>
connVars == <<execCalls>>
schemaVars == <<dbTables, ddlCount, loads>>
eagerVars == <<scn, rel, fw, queryLog>>
lazyVars == <<lq, calls, lazyLog>>
popVars == <<pop>>
cacheVars == <<tablesCache, namesCache, ops>>
fixVars == <<tbl>>
condVars == <<cnd>>
castVars == <<cast>>
quoteVars == <<quoted>>
mysqlVars == <<qb>>
columnVars == <<csb>>
migrateVars == <<mig>>

vars == <<joinVars, connVars, schemaVars, eagerVars, lazyVars, popVars,
         cacheVars,
         fixVars,
         condVars,
         castVars,
         quoteVars,
         mysqlVars,
         columnVars,
         migrateVars>>

(***************************************************************************)
(* Bounds                                                                  *)
(***************************************************************************)
MaxJoinWith == 2      \* joinWith() calls on one query
MaxBuilds == 3        \* prepare() calls on one query
MaxJoin == 1          \* explicit join() calls on one query
MaxExec == 2          \* exec() calls on one connection
MaxLoads == 2         \* _loadTableSchema() calls on one schema
MaxDdl == 2           \* tables dropped or created while loads are in flight
MaxPrimary == 2       \* primary models handed to findWith
MaxRelated == 3       \* rows of the related table, link of one column
MaxRows == 2          \* rows of the related table in the other scenarios
MaxJunction == 2      \* rows of a junction table
MaxCalls == 2         \* findFor() calls on one relation query
MaxResult == 3        \* rows handed to populate()
MaxSchemaCalls == 2   \* loadTableSchema / loadTableNames / ... calls of the user
MaxCacheLoads == 2    \* _loadTableSchema() calls that these calls start
MaxCacheDdl == 1      \* tables dropped or created while these calls are in flight
MaxKeys == 2          \* names in the argument of fixPrimaryKey()
MaxFixCalls == 2      \* fixPrimaryKey() calls on one table
MaxValues == 2        \* values in the list operand of a condition
MaxNameLen == 3       \* characters in a table name
MaxLimit == 2         \* the largest limit and offset of a query
MaxBuilderCalls == 4  \* calls of notNull, unique, check and defaultValue on one builder
MaxMigrations == 3    \* migration classes in the migration path

(***************************************************************************)
(* Generic helpers                                                         *)
(***************************************************************************)
SeqToSet(s) == { s[i] : i \in DOMAIN s }

\* The elements of s in order, each kept at its first position only.
RECURSIVE FirstOccurrences(_)
FirstOccurrences(s) ==
    IF s = <<>> THEN <<>>
    ELSE LET init == FirstOccurrences(SubSeq(s, 1, Len(s) - 1))
             last == s[Len(s)]
         IN IF last \in SeqToSet(init) THEN init ELSE Append(init, last)

(***************************************************************************)
(* joinWith expansion (ActiveQuery as a primary query)                     *)
(*                                                                         *)
(* The model class is the Order fixture.  A relation name given to         *)
(* joinWith is a path of segments: "orderItems.item" is                    *)
(* <<"orderItems", "item">>.                                               *)
(***************************************************************************)
WithPaths ==
    { <<"customer">>, <<"orderItems">>, <<"items">>, <<"orderItems", "item">> }

\* The relation lists handed to joinWith.
WithLists ==
    { << <<"customer">> >>, << <<"orderItems">> >>, << <<"items">> >>,
      << <<"orderItems">>, <<"items">> >>,
      << <<"items">>, <<"orderItems", "item">> >> }

JoinTypes == { "LEFT JOIN", "INNER JOIN" }

\* The eagerLoading argument of joinWith: a boolean, or an array of names.
EagerBool(b) == [isArray |-> FALSE, flag |-> b, names |-> {}]
EagerArray(ns) == [isArray |-> TRUE, flag |-> TRUE, names |-> ns]

\* The eagerLoading arguments tried with a relation list: the booleans for a
\* single relation, TRUE or an array naming the first relation for a longer one.
EagerChoices(with) ==
    IF Len(with) = 1 THEN { EagerBool(TRUE), EagerBool(FALSE) }
    ELSE { EagerBool(TRUE), EagerArray({with[1]}) }

\* The model class a relation of a class leads to.
RelationClass(class, seg) ==
    CASE class = "Order" /\ seg = "customer" -> "Customer"
      [] class = "Order" /\ seg = "orderItems" -> "OrderItem"
      [] class = "Order" /\ seg = "items" -> "Item"
      [] class = "OrderItem" /\ seg = "item" -> "Item"
      [] OTHER -> "None"

\* The model class reached from Order after the first k segments of path p.
RECURSIVE ClassAt(_, _)
ClassAt(p, k) ==
    IF k = 0 THEN "Order" ELSE RelationClass(ClassAt(p, k - 1), p[k])

JoinEntry(type, table, on) == [type |-> type, table |-> table, on |-> on]

\* _joinWithRelation(parent, child, joinType): the entries it pushes on
\* this._join.  A relation with via (Order.items, via "orderItems") joins the
\* via relation to the parent and then the child to the via relation.
RECURSIVE JoinWithRelation(_, _, _)
JoinWithRelation(class, seg, type) ==
    CASE class = "Order" /\ seg = "customer" ->
            << JoinEntry(type, "customer",
                         "{{order}}.[[customer_id]] = {{customer}}.[[id]]") >>
      [] class = "Order" /\ seg = "orderItems" ->
            << JoinEntry(type, "order_item",
                         "{{order}}.[[id]] = {{order_item}}.[[order_id]]") >>
      [] class = "OrderItem" /\ seg = "item" ->
            << JoinEntry(type, "item",
                         "{{order_item}}.[[item_id]] = {{item}}.[[id]]") >>
      [] class = "Order" /\ seg = "items" ->
            JoinWithRelation("Order", "orderItems", type)
                \o JoinWithRelation("OrderItem", "item", type)
      [] OTHER -> <<>>

\* _getJoinType(joinType, name) for a joinType given as a string.
GetJoinType(joinType, fullName) == joinType

\* One name of _joinWithRelations: every prefix of the path that is not yet in
\* `relations` is resolved and joined; acc = [relations, joins].
RECURSIVE JoinPath(_, _, _, _)
JoinPath(p, k, type, acc) ==
    IF k > Len(p) THEN acc
    ELSE LET fullName == SubSeq(p, 1, k)
             next ==
                 IF fullName \in acc.relations THEN acc
                 ELSE [relations |-> acc.relations \cup {fullName},
                       joins |-> acc.joins \o
                           JoinWithRelation(ClassAt(p, k - 1), p[k],
                                            GetJoinType(type, fullName))]
         IN JoinPath(p, k + 1, type, next)

\* _joinWithRelations(model, _with, joinType): the joins pushed for one queued
\* joinWith; `relations` starts empty on every call.
RECURSIVE JoinWithRelationsFrom(_, _, _, _)
JoinWithRelationsFrom(with, i, type, acc) ==
    IF i > Len(with) THEN acc.joins
    ELSE JoinWithRelationsFrom(with, i + 1, type, JoinPath(with[i], 1, type, acc))

JoinWithRelations(with, type) ==
    JoinWithRelationsFrom(with, 1, type, [relations |-> {}, joins |-> <<>>])

\* The relations _buildJoinWith hands to with() for one queued joinWith.
RECURSIVE WithoutNames(_, _)
WithoutNames(with, names) ==
    IF with = <<>> THEN <<>>
    ELSE LET rest == WithoutNames(Tail(with), names)
         IN IF Head(with) \in names THEN rest ELSE <<Head(with)>> \o rest

EagerWith(with, eager) ==
    IF eager.isArray THEN WithoutNames(with, eager.names)
    ELSE IF ~eager.flag THEN <<>>
    ELSE with

\* with(_with): the first non-empty list becomes this._with, later ones are
\* pushed onto it.
With(current, with) ==
    IF current = <<>> THEN with ELSE current \o with

\* The joins of all queued joinWith entries, in order.
RECURSIVE QueuedJoins(_)
QueuedJoins(joinWith) ==
    IF joinWith = <<>> THEN <<>>
    ELSE JoinWithRelations(Head(joinWith).with, Head(joinWith).type)
             \o QueuedJoins(Tail(joinWith))

RECURSIVE QueuedWith(_, _)
QueuedWith(current, joinWith) ==
    IF joinWith = <<>> THEN current
    ELSE QueuedWith(With(current, EagerWith(Head(joinWith).with, Head(joinWith).eager)),
                    Tail(joinWith))

\* uniqueJoins[JSON.stringify(j)] = j; _.values(uniqueJoins)
UniqueJoins(joins) == FirstOccurrences(joins)

\* _buildJoinWith: the new this._join.
BuildJoinWith(join, joinWith) ==
    UniqueJoins(QueuedJoins(joinWith)) \o join

\* prepare() leaves this._joinWith empty after _buildJoinWith.
BrokenClearedJoinWith(joinWith) == joinWith
ClearedJoinWith(joinWith) == <<>>

\* n: prepare() calls so far; last, prev: the join lists the last two of them
\* left; clean: the query was not changed since the last one; same: it was not
\* changed between the last two; queued: some prepare() expanded a joinWith.
NoLog ==
    [n |-> 0, calls |-> 0, last |-> <<>>, prev |-> <<>>, clean |-> FALSE,
     same |-> FALSE, queued |-> FALSE]

JoinInit ==
    /\ aqJoin = <<>>
    /\ aqJoinWith = <<>>
    /\ aqWith = <<>>
    /\ aqFrom = <<>>
    /\ aqSelect = <<>>
    /\ buildLog = NoLog

\* joinWith(_with, eagerLoading, joinType)
joinWith(with, eager, type) ==
    /\ buildLog.calls < MaxJoinWith
    /\ buildLog.n < MaxBuilds
    /\ aqJoinWith' = Append(aqJoinWith, [with |-> with, eager |-> eager, type |-> type])
    /\ buildLog' = [buildLog EXCEPT !.clean = FALSE, !.calls = @ + 1]
    /\ UNCHANGED <<aqJoin, aqWith, aqFrom, aqSelect>>

\* join(type, table, on): an explicit join of the caller.
join(type, table, on) ==
    /\ Cardinality({ i \in DOMAIN aqJoin : aqJoin[i].table = table }) < MaxJoin
    /\ buildLog.n < MaxBuilds
    /\ aqJoin' = Append(aqJoin, JoinEntry(type, table, on))
    /\ buildLog' = [buildLog EXCEPT !.clean = FALSE]
    /\ UNCHANGED <<aqJoinWith, aqWith, aqFrom, aqSelect>>

\* prepare(builder) on a primary query (primaryModel === null): expands the
\* queued joinWith, defaults from and select, and returns a Query copy.
prepare ==
    /\ buildLog.n < MaxBuilds
    /\ LET queued == aqJoinWith # <<>>
           newJoin == IF queued THEN BuildJoinWith(aqJoin, aqJoinWith) ELSE aqJoin
           newFrom == IF aqFrom = <<>> THEN <<"order">> ELSE aqFrom
       IN /\ aqJoin' = newJoin
          /\ aqWith' = IF queued THEN QueuedWith(aqWith, aqJoinWith) ELSE aqWith
          /\ aqJoinWith' = IF queued THEN ClearedJoinWith(aqJoinWith) ELSE aqJoinWith
          /\ aqFrom' = newFrom
          /\ aqSelect' = IF aqSelect = <<>> /\ newJoin # <<>>
                         THEN <<"order.*">> ELSE aqSelect
          /\ buildLog' = [n |-> buildLog.n + 1,
                          calls |-> buildLog.calls,
                          last |-> newJoin,
                          prev |-> buildLog.last,
                          clean |-> TRUE,
                          same |-> buildLog.clean,
                          queued |-> buildLog.queued \/ queued]


\* C1: a second prepare() of the same ActiveQuery, with no change to the query
\* since the first one, which expanded queued joinWith relations, produces the
\* same join list as the first: it adds no JOIN.
C1_RebuildSameJoins ==
    (buildLog.n >= 2 /\ buildLog.same /\ buildLog.queued)
        => buildLog.last = buildLog.prev

C1_Witness ==
    /\ buildLog.n >= 2
    /\ buildLog.same
    /\ buildLog.queued
    /\ Len(buildLog.last) >= 2

\* No entry is in the list twice.
NoDuplicates(joins) ==
    \A i \in DOMAIN joins, j \in DOMAIN joins : joins[i] = joins[j] => i = j

\* C17: after prepare() the join list of the query holds no JOIN entry twice,
\* also when two joinWith paths with a common prefix reach the same relation
\* or when a relation is queued again after an earlier prepare().
C17_NoDuplicateJoins ==
    (buildLog.n >= 1 /\ buildLog.clean) => NoDuplicates(aqJoin)

\* The relations of one queued joinWith that are to be eager-loaded: those
\* that an eagerLoading array names, all or none of them for a boolean.
NamedWith(with, eager) ==
    IF eager.isArray THEN SelectSeq(with, LAMBDA name : name \in eager.names)
    ELSE IF eager.flag THEN with
    ELSE <<>>

RECURSIVE NamedQueuedWith(_)
NamedQueuedWith(queue) ==
    IF queue = <<>> THEN <<>>
    ELSE NamedWith(Head(queue).with, Head(queue).eager)
             \o NamedQueuedWith(Tail(queue))

\* C18: when joinWith(with, eagerLoading) is given an array as eagerLoading,
\* the prepare() that expands it hands to with() exactly the relations that
\* the array names; the other relations of `with` are joined and not
\* eager-loaded.
C18_ArrayNamesEagerLoaded ==
    [][(aqJoinWith # <<>> /\ aqJoinWith' = <<>>)
           => aqWith' = aqWith \o NamedQueuedWith(aqJoinWith)]_vars

(***************************************************************************)
(* Jii.sql.mysql.Connection.exec(sql, method)                              *)
(***************************************************************************)
ExecMethods == { "execute", "one", "all", "scalar", "column", "null" }

\* What the driver hands to the callback of query(): the rows of a SELECT (each
\* row the sequence of its column values), or the packet of a statement.
DriverRows == { <<>>, << <<1, 7>> >>, << <<1, 7>>, <<2, 0>> >> }
DriverPackets ==
    [rows : DriverRows, affectedRows : {0, 1}, insertId : {0, 5}]

Pending == [state |-> "pending", kind |-> "none", rows |-> <<>>, n |-> 0]
Resolved(kind, rows, n) == [state |-> "resolved", kind |-> kind, rows |-> rows, n |-> n]
Rejected(kind) == [state |-> "rejected", kind |-> kind, rows |-> <<>>, n |-> 0]

\* The err branch of exec's callback.
BrokenExecError(method) == Rejected("SqlQueryException")
ExecError(method) ==
    IF method = "execute" \/ method = "null"
    THEN Rejected("SqlQueryException")
    ELSE Resolved("false", <<>>, 0)

\* The switch (method) of exec's callback.
ExecResult(method, packet) ==
    CASE method = "execute" ->
            IF packet.insertId # 0
            THEN Resolved("execute", <<>>, packet.insertId)
            ELSE Resolved("executeNoId", <<>>, packet.affectedRows)
      [] method = "one" ->
            IF Len(packet.rows) > 0
            THEN Resolved("row", <<packet.rows[1]>>, 0)
            ELSE Resolved("null", <<>>, 0)
      [] method = "all" -> Resolved("rows", packet.rows, 0)
      [] method = "scalar" ->
            IF Len(packet.rows) > 0
            THEN Resolved("scalar", <<>>, packet.rows[1][1])
            ELSE Resolved("null", <<>>, 0)
      [] method = "column" ->
            Resolved("column", <<[i \in DOMAIN packet.rows |-> packet.rows[i][1]]>>, 0)
      [] OTHER -> Resolved("rows", packet.rows, 0)

ConnInit == execCalls = <<>>

\* exec(sql, method): hands the statement to the driver, returns a promise.
exec(method) ==
    /\ Len(execCalls) < MaxExec
    /\ execCalls' = Append(execCalls, [method |-> method, err |-> FALSE, out |-> Pending])

\* The driver calls back with an error.
execCallbackError(i) ==
    /\ execCalls[i].out.state = "pending"
    /\ execCalls' = [execCalls EXCEPT ![i] =
                        [@ EXCEPT !.err = TRUE, !.out = ExecError(execCalls[i].method)]]

\* The driver calls back with a result.
execCallbackRows(i, packet) ==
    /\ execCalls[i].out.state = "pending"
    /\ execCalls' = [execCalls EXCEPT ![i] =
                        [@ EXCEPT !.out = ExecResult(execCalls[i].method, packet)]]

TableNames == { "customer", "order_item" }
LoadNames == TableNames \cup { "nonexisting_table" }

\* Names in {{ }}, which getRawTableName expands, and every name the cache
\* _tables may have as a key.
TemplateNames == { "{{customer}}", "{{%customer}}" }
CacheKeys == LoadNames \cup TemplateNames

\* db.tablePrefix, here the empty string
TablePrefix == ""

\* getRawTableName(name): the name in {{ }} without the brackets, and % in it
\* replaced by db.tablePrefix
GetRawTableName(name) ==
    CASE name = "{{customer}}" -> "customer"
      [] name = "{{%customer}}" -> TablePrefix \o "customer"
      [] OTHER -> name

\* The rows of SHOW FULL COLUMNS.
ShowFullColumns(name) ==
    CASE name = "customer" ->
            << [Field |-> "id", Key |-> "PRI", Extra |-> "auto_increment"],
               [Field |-> "name", Key |-> "", Extra |-> ""] >>
      [] name = "order_item" ->
            << [Field |-> "order_id", Key |-> "PRI", Extra |-> ""],
               [Field |-> "item_id", Key |-> "PRI", Extra |-> ""],
               [Field |-> "quantity", Key |-> "", Extra |-> ""] >>
      [] OTHER -> <<>>

\* The FOREIGN KEY clauses in the text of SHOW CREATE TABLE.
ShowCreateTable(name) ==
    CASE name = "order_item" ->
            << [table |-> "order", fk |-> "order_id", pk |-> "id"],
               [table |-> "item", fk |-> "item_id", pk |-> "id"] >>
      [] OTHER -> <<>>

\* new TableSchema() after _resolveTableNames(table, name)
NewTableSchema(name) ==
    [isNull |-> FALSE, name |-> name, fullName |-> name, columns |-> <<>>,
     primaryKey |-> <<>>, sequenceName |-> "null", foreignKeys |-> <<>>]

NullTable ==
    [isNull |-> TRUE, name |-> "", fullName |-> "", columns |-> <<>>,
     primaryKey |-> <<>>, sequenceName |-> "null", foreignKeys |-> <<>>]

\* _loadColumnSchema(info)
LoadColumnSchema(info) ==
    [name |-> info.Field,
     isPrimaryKey |-> info.Key = "PRI",
     autoIncrement |-> info.Extra = "auto_increment"]

\* The loop of _findColumns over the rows of SHOW FULL COLUMNS.
RECURSIVE FindColumnsFrom(_, _, _)
FindColumnsFrom(table, rows, i) ==
    IF i > Len(rows) THEN table
    ELSE LET column == LoadColumnSchema(rows[i])
             withColumn == [table EXCEPT !.columns = Append(@, column)]
             next ==
                 IF column.isPrimaryKey
                 THEN [withColumn EXCEPT
                          !.primaryKey = Append(@, column.name),
                          !.sequenceName =
                              IF column.autoIncrement THEN "" ELSE @]
                 ELSE withColumn
         IN FindColumnsFrom(next, rows, i + 1)

\* The loop of _findConstraints over the FOREIGN KEY clauses.
FindConstraints(table, clauses) == [table EXCEPT !.foreignKeys = clauses]

SchemaInit ==
    /\ dbTables \in SUBSET TableNames
    /\ ddlCount = 0
    /\ loads = <<>>

\* A schema that is not used.
SchemaIdle ==
    /\ dbTables = {}
    /\ ddlCount = 0
    /\ loads = <<>>

\* _loadTableSchema(name): creates the TableSchema and issues SHOW FULL COLUMNS.
loadTableSchemaStart(name) ==
    /\ Len(loads) < MaxLoads
    /\ loads' = Append(loads, [name |-> name, pc |-> "columns",
                               table |-> NewTableSchema(name),
                               columnsFailed |-> FALSE, createFailed |-> FALSE,
                               out |-> Pending])
    /\ UNCHANGED <<dbTables, ddlCount>>

\* SHOW FULL COLUMNS completes (_findColumns): with rows the columns are
\* filled and SHOW CREATE TABLE is issued; with false _findColumns rejects, the
\* rejection handler of _loadTableSchema sets table = null and the load
\* resolves with null.
findColumnsDone(i) ==
    /\ loads[i].pc = "columns"
    /\ IF loads[i].name \in dbTables
       THEN loads' = [loads EXCEPT ![i] =
               [@ EXCEPT !.pc = "constraints",
                         !.table = FindColumnsFrom(loads[i].table,
                                       ShowFullColumns(loads[i].name), 1)]]
       ELSE loads' = [loads EXCEPT ![i] =
               [@ EXCEPT !.pc = "done", !.columnsFailed = TRUE,
                         !.table = NullTable,
                         !.out = Resolved("null", <<>>, 0)]]
    /\ UNCHANGED <<dbTables, ddlCount>>

\* What _loadTableSchema's promise becomes when _getCreateTableSql rejects: the
\* rejection comes out of the fulfilment handler of _findColumns(table).then(),
\* which the rejection handler given to the same then() does not see.
CreateTableFailure(load) ==
    [load EXCEPT !.pc = "done", !.createFailed = TRUE,
                 !.out = Rejected("SqlQueryException")]

\* SHOW CREATE TABLE completes (_getCreateTableSql, _findConstraints).
findConstraintsDone(i) ==
    /\ loads[i].pc = "constraints"
    /\ IF loads[i].name \in dbTables
       THEN loads' = [loads EXCEPT ![i] =
               [@ EXCEPT !.pc = "done",
                         !.table = FindConstraints(loads[i].table,
                                       ShowCreateTable(loads[i].name)),
                         !.out = Resolved("table", <<>>, 0)]]
       ELSE loads' = [loads EXCEPT ![i] = CreateTableFailure(loads[i])]
    /\ UNCHANGED <<dbTables, ddlCount>>

\* Another client drops a table.
dropTable(name) ==
    /\ ddlCount < MaxDdl
    /\ name \in dbTables
    /\ dbTables' = dbTables \ {name}
    /\ ddlCount' = ddlCount + 1
    /\ UNCHANGED loads

\* Another client creates a table.
createTable(name) ==
    /\ ddlCount < MaxDdl
    /\ name \notin dbTables
    /\ dbTables' = dbTables \cup {name}
    /\ ddlCount' = ddlCount + 1
    /\ UNCHANGED loads

\* C9: _loadTableSchema(name) resolves to null and never rejects whenever one
\* of its introspection queries fails, SHOW FULL COLUMNS or SHOW CREATE TABLE.
C9_FailureGivesNull ==
    \A i \in DOMAIN loads :
        (loads[i].pc = "done" /\ (loads[i].columnsFailed \/ loads[i].createFailed))
            => /\ loads[i].out.state = "resolved"
               /\ loads[i].out.kind = "null"

(***************************************************************************)
(* Relations of an ActiveQuery: rows, links, keys, filters and buckets     *)
(*                                                                         *)
(* A row has the columns id, a and b.  id is the row's primary key (its    *)
(* position in its table) and identifies the record built from the row; a  *)
(* and b are columns a link may use, and they may be NULL.                 *)
(***************************************************************************)
Null == 0
KeyValues == {1, 2}
Row(id, a, b) == [id |-> id, a |-> a, b |-> b]
NullModel == Row(Null, Null, Null)

\* this.link, an object whose keys are columns of the related table and whose
\* values are columns of the primary table; pairs keeps the order of its keys.
Link(pairs) == [isObject |-> TRUE, pairs |-> pairs]
InvalidLink == [isObject |-> FALSE, pairs |-> <<>>]
LinkKeys(link) == [i \in DOMAIN link.pairs |-> link.pairs[i][1]]
LinkValues(link) == [i \in DOMAIN link.pairs |-> link.pairs[i][2]]

\* The relation named by inverseOf, as the related class declares it: the
\* same columns, linked the other way round.
InverseLink(link) ==
    Link([i \in DOMAIN link.pairs |-> <<link.pairs[i][2], link.pairs[i][1]>>])

\* _getModelKey(model, attributes): the values of the attributes, as one key
\* (JSON.stringify of the list, or the scalar itself; null gives "null").
GetModelKey(model, attributes) == [i \in DOMAIN attributes |-> model[attributes[i]]]

\* ['in', columns, values]
InCondition(columns, values) == [cols |-> columns, vals |-> values]

\* Query.andWhere(condition): where becomes the conjunction of where and the
\* condition; where is kept as the list of its conjuncts.
AndWhere(where, condition) == Append(where, condition)

\* The values _filterByModels collects from the models.  With one link column
\* it reads the column of the primary table (a value of link) and skips null;
\* with several it reads, for each key of link, the attribute of that name.
FilterValues(link, models) ==
    IF Len(link.pairs) = 1
    THEN LET attribute == LinkValues(link)[1]
             NotNull(model) == model[attribute] # Null
             kept == SelectSeq(models, NotNull)
         IN FirstOccurrences([i \in DOMAIN kept |-> <<kept[i][attribute]>>])
    ELSE [i \in DOMAIN models |->
             [k \in DOMAIN link.pairs |-> models[i][LinkKeys(link)[k]]]]

\* _filterByModels(models) on a query whose _where is where.
FilterByModels(where, link, models) ==
    AndWhere(where, InCondition(LinkKeys(link), FilterValues(link, models)))

\* Whether a row of the database satisfies an IN condition (NULL never does).
Satisfies(row, condition) ==
    \E k \in DOMAIN condition.vals :
        \A i \in DOMAIN condition.cols :
            /\ row[condition.cols[i]] # Null
            /\ row[condition.cols[i]] = condition.vals[k][i]

\* all(): the rows of the table that satisfy where, in the table's order.
QueryAll(table, where) ==
    LET Selected(row) == \A c \in DOMAIN where : Satisfies(row, where[c])
    IN SelectSeq(table, Selected)

\* one(): the first such row, or null.
QueryOne(table, where) ==
    IF QueryAll(table, where) = <<>> THEN NullModel ELSE QueryAll(table, where)[1]

\* A populated relation of a record: a list of records or one record
\* (items is empty for null), each named by its id.
NotPopulated == [set |-> FALSE, isList |-> FALSE, items |-> <<>>]
ManyValue(ids) == [set |-> TRUE, isList |-> TRUE, items |-> ids]
OneValue(ids) == [set |-> TRUE, isList |-> FALSE, items |-> ids]

Ids(models) == [i \in DOMAIN models |-> models[i].id]

\* The keys under which _buildBuckets puts a model whose key is key when a
\* junction is given: the keys k of map[key], where map[key2][key1] = true for
\* every junction row.
BrokenMapKeys(viaModels, viaLinkKeys, linkValues, key) ==
    LET Linked(viaModel) == GetModelKey(viaModel, linkValues) = key
        rows == SelectSeq(viaModels, Linked)
    IN [i \in DOMAIN rows |-> GetModelKey(rows[i], viaLinkKeys)]
MapKeys(viaModels, viaLinkKeys, linkValues, key) ==
    LET Linked(viaModel) == GetModelKey(viaModel, linkValues) = key
        rows == SelectSeq(viaModels, Linked)
    IN FirstOccurrences([i \in DOMAIN rows |-> GetModelKey(rows[i], viaLinkKeys)])

EmptyBuckets == [k \in {} |-> <<>>]

\* buckets[k] = buckets[k] || []; buckets[k].push(model), for every k of keys
RECURSIVE PushModel(_, _, _, _)
PushModel(buckets, keys, j, model) ==
    IF j > Len(keys) THEN buckets
    ELSE LET k == keys[j]
             pushed == IF k \in DOMAIN buckets
                       THEN [buckets EXCEPT ![k] = Append(@, model)]
                       ELSE buckets @@ (k :> <<model>>)
         IN PushModel(pushed, keys, j + 1, model)

\* The loop of _buildBuckets over the models.
RECURSIVE BucketsFrom(_, _, _, _, _, _, _)
BucketsFrom(buckets, models, i, link, viaModels, viaLink, hasVia) ==
    IF i > Len(models) THEN buckets
    ELSE LET key == GetModelKey(models[i], LinkKeys(link))
             keys == IF hasVia
                     THEN MapKeys(viaModels, LinkKeys(viaLink), LinkValues(link), key)
                     ELSE <<key>>
         IN BucketsFrom(PushModel(buckets, keys, 1, models[i].id),
                        models, i + 1, link, viaModels, viaLink, hasVia)

\* What is left of a bucket of a relation that is not multiple: bucket[0]
FirstOfBucket(bucket) == <<bucket[1]>>

\* _buildBuckets(models, link, viaModels, viaLink, checkMultiple) of a relation
\* whose multiple is multiple
BuildBuckets(models, link, viaModels, viaLink, hasVia, checkMultiple, multiple) ==
    LET buckets == BucketsFrom(EmptyBuckets, models, 1, link, viaModels, viaLink, hasVia)
    IN IF checkMultiple /\ ~multiple
       THEN [k \in DOMAIN buckets |-> FirstOfBucket(buckets[k])]
       ELSE buckets

\* value = buckets[key] || (this.multiple ? [] : null)
BucketValue(buckets, key, multiple) ==
    LET items == IF key \in DOMAIN buckets THEN buckets[key] ELSE <<>>
    IN IF multiple THEN ManyValue(items) ELSE OneValue(items)

\* primaryModel[primaryName]: a plain row carries the populated relation as a
\* property, a record keeps it in its relations and has no such property.
RelatedProperty(asArray, value) == IF asArray THEN value ELSE NotPopulated

\* primaryModel instanceof Jii.base.Model ? primaryModel.get(primaryName)
\*                                        : primaryModel[primaryName]
RelatedOf(asArray, value) == value

\* The last primary model whose populated relation holds the related record.
LastHolder(primaryModels, value, id) ==
    LET holders == { i \in DOMAIN primaryModels :
                        \E j \in DOMAIN value[i].items : value[i].items[j] = id }
    IN IF holders = {} THEN Null
       ELSE CHOOSE i \in holders : \A h \in holders : h <= i

\* _populateInverseRelation(primaryModels, models, primaryName, name) of the
\* relation def; value[i] is the relation just populated into primaryModels[i],
\* inverse[id] the relation `name` of the related record id.  error: a
\* TypeError was thrown.
PopulateInverseRelation(def, asArray, primaryModels, models, value, inverse) ==
    IF models = <<>> \/ primaryModels = <<>>
    THEN [error |-> FALSE, inverse |-> inverse]
    ELSE
      LET model == models[1]
          isRecord == model # NullModel /\ ~asArray
          relation == [link |-> InverseLink(def.link),
                       multiple |-> def.inverseOf = "multiple"]
          buckets == BuildBuckets(primaryModels, relation.link, <<>>, relation.link,
                                  FALSE, FALSE, relation.multiple)
          KeyOf(m) == GetModelKey(m, LinkValues(relation.link))
          ModelOf(id) == CHOOSE m \in SeqToSet(models) : m.id = id
          Loaded(id) == \E m \in SeqToSet(models) : m # NullModel /\ m.id = id
          Held(id, asProperty) ==
              \E i \in DOMAIN primaryModels :
                  LET related == IF asProperty
                                 THEN RelatedProperty(asArray, value[i])
                                 ELSE RelatedOf(asArray, value[i])
                  IN \E j \in DOMAIN related.items : related.items[j] = id
      IN
      IF relation.multiple
      THEN IF isRecord
           THEN [error |-> FALSE,
                 inverse |-> [id \in DOMAIN inverse |->
                     IF Loaded(id)
                     THEN BucketValue(buckets, KeyOf(ModelOf(id)), TRUE)
                     ELSE inverse[id]]]
           ELSE IF def.multiple
                THEN \* Jii._.each(primaryModel, ...) walks the columns of the
                     \* primary row: a property is set on a number or read from null
                     [error |-> TRUE, inverse |-> inverse]
                ELSE [error |-> FALSE,
                      inverse |-> [id \in DOMAIN inverse |->
                          IF Held(id, TRUE)
                          THEN BucketValue(buckets, KeyOf(ModelOf(id)), TRUE)
                          ELSE inverse[id]]]
      ELSE IF def.multiple
           THEN [error |-> FALSE,
                 inverse |-> [id \in DOMAIN inverse |->
                     IF Held(id, FALSE)
                     THEN OneValue(<<primaryModels[LastHolder(primaryModels, value, id)].id>>)
                     ELSE inverse[id]]]
           ELSE [error |-> FALSE,
                 inverse |-> [id \in DOMAIN inverse |->
                     IF Held(id, TRUE)
                     THEN OneValue(<<primaryModels[LastHolder(primaryModels, value, id)].id>>)
                     ELSE inverse[id]]]

(***************************************************************************)
(* The scenarios of eager loading                                          *)
(***************************************************************************)
\* A relation as its getter declares it, and the tables its queries read.
RelationDef(link, multiple, via, viaLink, viaMultiple, inverseOf, target, junction) ==
    [link |-> link, multiple |-> multiple, via |-> via, viaLink |-> viaLink,
     viaMultiple |-> viaMultiple, inverseOf |-> inverseOf,
     target |-> target, junction |-> junction]

\* hasMany(Order, {customer_id: 'id'}): a column of the related row holds the
\* primary key of the primary model
HasManyLink == Link(<< <<"a", "id">> >>)
\* hasOne(Customer, {id: 'customer_id'}): a column of the primary model holds
\* the primary key of the related row
BelongsToLink == Link(<< <<"id", "a">> >>)
\* links of two columns, named alike on both sides or not
CompositeLink == Link(<< <<"a", "a">>, <<"b", "b">> >>)
MixedCompositeLink == Link(<< <<"a", "id">>, <<"b", "b">> >>)
\* hasMany(Item, {id: 'item_id'}) through a junction whose link is
\* {order_id: 'id'}: column b of a junction row holds the primary model's id,
\* column a the id of the related row
JunctionLink == Link(<< <<"b", "id">> >>)
ThroughLink == Link(<< <<"id", "a">> >>)

\* The values of a column in a table: a column no link uses is left NULL;
\* column a may be NULL, column b is NOT NULL
ColumnValues(column, used) ==
    IF column \notin SeqToSet(used) THEN {Null}
    ELSE IF column = "a" THEN KeyValues \cup {Null} ELSE KeyValues

\* The tables of at most max rows whose link columns are the columns used.
Tables(min, max, used) ==
    UNION { { [i \in 1..n |-> Row(i, f[i][1], f[i][2])] :
                f \in [1..n -> ColumnValues("a", used) \X ColumnValues("b", used)] } :
            n \in min..max }

\* Tables whose columns a and b make up a key of two columns, both NOT NULL.
CompositeTables(min, max) ==
    UNION { { [i \in 1..n |-> Row(i, f[i][1], f[i][2])] :
                f \in [1..n -> KeyValues \X KeyValues] } :
            n \in min..max }

\* The scenario of one relation rels[1] of the primary models, or of two.
Scenario(primaryModels, asArray, rels) ==
    [primaryModels |-> primaryModels, asArray |-> asArray, rels |-> rels]

\* One relation without via and without inverseOf, its link of one column.
DirectScenario ==
    \E link \in { HasManyLink, BelongsToLink }, multiple \in BOOLEAN :
        \E primaryModels \in Tables(1, MaxPrimary, LinkValues(link)),
           target \in Tables(0, MaxRelated, LinkKeys(link)) :
            scn = Scenario(primaryModels, FALSE,
                           << RelationDef(link, multiple, "none", link, TRUE, "none",
                                          target, <<>>) >>)

\* One relation without via and without inverseOf, its link of two columns.
CompositeScenario ==
    \E link \in { CompositeLink, MixedCompositeLink }, multiple \in BOOLEAN :
        \E primaryModels \in CompositeTables(1, MaxPrimary),
           target \in CompositeTables(0, MaxRows) :
            scn = Scenario(primaryModels, FALSE,
                           << RelationDef(link, multiple, "none", link, TRUE, "none",
                                          target, <<>>) >>)

\* One relation without via that declares inverseOf.
InverseScenario ==
    \E link \in { HasManyLink, BelongsToLink }, multiple \in BOOLEAN,
       asArray \in BOOLEAN, inverseOf \in { "single", "multiple" } :
        \E primaryModels \in Tables(1, MaxPrimary, LinkValues(link)),
           target \in Tables(0, MaxRows, LinkKeys(link)) :
            scn = Scenario(primaryModels, asArray,
                           << RelationDef(link, multiple, "none", link, TRUE, inverseOf,
                                          target, <<>>) >>)

ViaKinds ==
    { <<"table", TRUE>>, <<"relation", TRUE>>, <<"relation", FALSE>> }

\* One relation through a junction table (viaTable) or a via relation.
ViaScenario ==
    \E multiple \in BOOLEAN, via \in ViaKinds :
        \E primaryModels \in Tables(1, MaxPrimary, <<"id">>),
           junction \in Tables(0, MaxJunction, <<"a", "b">>),
           target \in Tables(0, MaxRows, <<"id">>) :
            scn = Scenario(primaryModels, FALSE,
                           << RelationDef(ThroughLink, multiple, via[1], JunctionLink,
                                          via[2], "none", target, junction) >>)

\* Two sibling relations, one direct and one through a junction table.
SiblingScenario ==
    \E primaryModels \in Tables(MaxPrimary, MaxPrimary, <<"a">>),
       junction \in Tables(1, MaxRows, <<"a", "b">>),
       target \in Tables(MaxRows, MaxRows, <<"id">>) :
        scn = Scenario(primaryModels, FALSE,
                       << RelationDef(BelongsToLink, FALSE, "none", BelongsToLink, TRUE,
                                      "none", target, <<>>),
                          RelationDef(ThroughLink, TRUE, "table", JunctionLink, TRUE,
                                      "none", target, junction) >>)

\* A relation whose link is not an object, alone or after a sibling.
InvalidLinkScenario ==
    \E primaryModels \in Tables(1, MaxPrimary, <<"a">>) :
        \/ scn = Scenario(primaryModels, FALSE,
                          << RelationDef(InvalidLink, TRUE, "none", InvalidLink, TRUE,
                                         "none", <<Row(1, Null, Null)>>, <<>>) >>)
        \/ scn = Scenario(primaryModels, FALSE,
                          << RelationDef(BelongsToLink, FALSE, "none", BelongsToLink,
                                         TRUE, "none", <<Row(1, Null, Null)>>, <<>>),
                             RelationDef(InvalidLink, TRUE, "table", JunctionLink, TRUE,
                                         "none", <<Row(1, Null, Null)>>,
                                         <<Row(1, 1, 1)>>) >>)

\* No eager loading.
NoScenario == Scenario(<<>>, FALSE, <<>>)

(***************************************************************************)
(* Eager loading: findWith and populateRelation                            *)
(*                                                                         *)
(* scn is the scenario: the primary models that populate() hands to        *)
(* findWith, whether they are plain rows (asArray), and for each relation  *)
(* named in with() its declaration and the tables its queries read.        *)
(* A relation inherits asArray from the primary query.                     *)
(***************************************************************************)
\* new ActiveQuery, as getRelation(name) returns it for relation r
NewRelation(s, r) ==
    [pc |-> "idle", where |-> <<>>, viaWhere |-> <<>>,
     viaModels |-> <<>>, models |-> <<>>,
     value |-> [i \in DOMAIN s.primaryModels |-> NotPopulated],
     viaValue |-> [i \in DOMAIN s.primaryModels |-> NotPopulated],
     inverse |-> [id \in DOMAIN s.rels[r].target |-> NotPopulated]]

QueryEntry(r, table, method, where) ==
    [rel |-> r, table |-> table, method |-> method, where |-> where, done |-> FALSE]

\* The first relation of the list whose link is not an object, or one more
\* than the length of the list.
FirstInvalid(rels) ==
    LET bad == { r \in DOMAIN rels : ~rels[r].link.isObject }
    IN IF bad = {} THEN Len(rels) + 1
       ELSE CHOOSE r \in bad : \A q \in bad : r <= q

\* The relations whose populateRelation() findWith has called and got a
\* promise from when its loop ends: all of them, or those before the one that
\* threw.
BrokenFindWithStarts(rels) == { r \in DOMAIN rels : r < FirstInvalid(rels) /\ r = 1 }
FindWithStarts(rels) == { r \in DOMAIN rels : r < FirstInvalid(rels) }

\* The values populateRelation assigns from the buckets to the primary models.
AssignValues(primaryModels, models, link, multiple, hasVia, viaModels, viaLink) ==
    LET buckets == BuildBuckets(models, link, viaModels, viaLink, hasVia, TRUE, multiple)
        parentColumns == LinkValues(IF hasVia THEN viaLink ELSE link)
    IN [i \in DOMAIN primaryModels |->
           BucketValue(buckets, GetModelKey(primaryModels[i], parentColumns), multiple)]

\* primaryModels.length === 1 && !this.multiple
UsesOne(primaryModels, multiple) == Len(primaryModels) = 1 /\ ~multiple

\* The value populateRelation assigns from the result of one().
OneResult(primaryModels, model) ==
    [i \in DOMAIN primaryModels |->
        OneValue(IF model = NullModel THEN <<>> ELSE <<model.id>>)]

\* The second step of populateRelation, once the via models are there:
\* _filterByModels(viaModels), which reads a column of every via model, then
\* one() or all() is issued.
FilterAndIssue(cur, def, primaryModels, viaModels) ==
    IF \E i \in DOMAIN viaModels : viaModels[i] = NullModel
    THEN [cur EXCEPT !.pc = "rejected", !.viaModels = viaModels]
    ELSE [cur EXCEPT !.pc = "target", !.viaModels = viaModels,
                     !.where = FilterByModels(cur.where, def.link, viaModels)]

TargetMethod(def, primaryModels) ==
    IF UsesOne(primaryModels, def.multiple) THEN "one" ELSE "all"

ViaMethod(def, primaryModels) ==
    IF def.via = "relation" /\ UsesOne(primaryModels, def.viaMultiple)
    THEN "one" ELSE "all"

MarkDone(log, r, table) ==
    [k \in DOMAIN log |->
        IF log[k].rel = r /\ log[k].table = table
        THEN [log[k] EXCEPT !.done = TRUE] ELSE log[k]]

EagerInit ==
    /\ \/ DirectScenario
       \/ CompositeScenario
       \/ InverseScenario
       \/ ViaScenario
       \/ SiblingScenario
       \/ InvalidLinkScenario
    /\ rel = [r \in DOMAIN scn.rels |-> NewRelation(scn, r)]
    /\ fw = "idle"
    /\ queryLog = <<>>

\* No eager loading.
EagerIdle ==
    /\ scn = NoScenario
    /\ rel = <<>>
    /\ fw = "idle"
    /\ queryLog = <<>>

\* findWith(with, models): calls populateRelation(name, models) for every
\* relation in turn; populateRelation throws when its link is not an object,
\* and otherwise returns a promise whose first step runs later.
findWith ==
    /\ fw = "idle"
    /\ rel' = [r \in DOMAIN rel |->
                 IF r \in FindWithStarts(scn.rels)
                 THEN [rel[r] EXCEPT !.pc = "called"]
                 ELSE IF r = FirstInvalid(scn.rels)
                      THEN [rel[r] EXCEPT !.pc = "thrown"]
                      ELSE rel[r]]
    /\ fw' = IF FirstInvalid(scn.rels) > Len(scn.rels) THEN "pending" ELSE "thrown"
    /\ UNCHANGED <<scn, queryLog>>

\* The first step of populateRelation: without via the primary models are the
\* via models and the second step follows; with via the junction query
\* (_findJunctionRows) or the query of the via relation (its own
\* populateRelation) is filtered by the primary models and issued.
resolveVia(r) ==
    /\ rel[r].pc = "called"
    /\ LET def == scn.rels[r]
           next == FilterAndIssue(rel[r], def, scn.primaryModels, scn.primaryModels)
           viaWhere == FilterByModels(rel[r].viaWhere, def.viaLink, scn.primaryModels)
       IN IF def.via = "none"
          THEN /\ rel' = [rel EXCEPT ![r] = next]
               /\ queryLog' = Append(queryLog,
                      QueryEntry(r, "target", TargetMethod(def, scn.primaryModels),
                                 next.where))
          ELSE /\ rel' = [rel EXCEPT ![r] = [@ EXCEPT !.pc = "via", !.viaWhere = viaWhere]]
               /\ queryLog' = Append(queryLog,
                      QueryEntry(r, "via", ViaMethod(def, scn.primaryModels), viaWhere))
    /\ UNCHANGED <<scn, fw>>

\* The junction query or the via relation's query completes: the via relation
\* is populated into the primary models, then the second step follows.
viaComplete(r) ==
    /\ rel[r].pc = "via"
    /\ LET def == scn.rels[r]
           viaModels ==
               IF ViaMethod(def, scn.primaryModels) = "one"
               THEN <<QueryOne(def.junction, rel[r].viaWhere)>>
               ELSE QueryAll(def.junction, rel[r].viaWhere)
           viaValue ==
               IF def.via = "table" THEN rel[r].viaValue
               ELSE IF ViaMethod(def, scn.primaryModels) = "one"
                    THEN OneResult(scn.primaryModels, viaModels[1])
                    ELSE AssignValues(scn.primaryModels, viaModels, def.viaLink,
                                      def.viaMultiple, FALSE, <<>>, def.viaLink)
           next == FilterAndIssue([rel[r] EXCEPT !.viaValue = viaValue], def,
                                  scn.primaryModels, viaModels)
       IN /\ rel' = [rel EXCEPT ![r] = next]
          /\ queryLog' =
                 IF next.pc = "target"
                 THEN Append(MarkDone(queryLog, r, "via"),
                          QueryEntry(r, "target", TargetMethod(def, scn.primaryModels),
                                     next.where))
                 ELSE MarkDone(queryLog, r, "via")
    /\ UNCHANGED <<scn, fw>>

\* one() or all() of the relation completes: the related models are assigned
\* to the primary models, and the inverse relation is populated.
targetComplete(r) ==
    /\ rel[r].pc = "target"
    /\ LET def == scn.rels[r]
           one == TargetMethod(def, scn.primaryModels) = "one"
           models == IF one THEN <<QueryOne(def.target, rel[r].where)>>
                     ELSE QueryAll(def.target, rel[r].where)
           value == IF one THEN OneResult(scn.primaryModels, models[1])
                    ELSE AssignValues(scn.primaryModels, models, def.link, def.multiple,
                                      def.via # "none", rel[r].viaModels, def.viaLink)
           back == IF def.inverseOf = "none"
                   THEN [error |-> FALSE, inverse |-> rel[r].inverse]
                   ELSE PopulateInverseRelation(def, scn.asArray, scn.primaryModels,
                                                models, value, rel[r].inverse)
       IN rel' = [rel EXCEPT ![r] =
                     [@ EXCEPT !.pc = IF back.error THEN "rejected" ELSE "done",
                               !.models = models, !.value = value,
                               !.inverse = back.inverse]]
    /\ queryLog' = MarkDone(queryLog, r, "target")
    /\ UNCHANGED <<scn, fw>>

(***************************************************************************)
(* Claims about eager loading                                              *)
(***************************************************************************)
\* The rows of a list whose columns childColumns hold the values that the
\* columns parentColumns of the model parent hold.
RowsLinkedTo(rows, childColumns, parent, parentColumns) ==
    LET Linked(row) ==
            /\ row # NullModel
            /\ GetModelKey(row, childColumns) = GetModelKey(parent, parentColumns)
    IN SelectSeq(rows, Linked)

\* The value a relation has with the related rows given: the list of them, or
\* the first of them (null when there is none).
ValueOf(rows, multiple) ==
    IF multiple THEN ManyValue(Ids(rows))
    ELSE OneValue(IF rows = <<>> THEN <<>> ELSE <<rows[1].id>>)

\* C3: populateRelation without via gives every primary model the related rows
\* of the result whose link columns equal the model's key, in the order of the
\* result: all of them (or the empty list) when multiple, the first of them (or
\* null) otherwise.
C3_BucketsByKey ==
    \A r \in DOMAIN rel :
        (rel[r].pc = "done" /\ scn.rels[r].via = "none") =>
            \A i \in DOMAIN scn.primaryModels :
                rel[r].value[i] =
                    ValueOf(RowsLinkedTo(rel[r].models, LinkKeys(scn.rels[r].link),
                                         scn.primaryModels[i],
                                         LinkValues(scn.rels[r].link)),
                            scn.rels[r].multiple)

\* The related rows that some junction row among viaModels links to a primary
\* model.
RowsLinkedThrough(rows, def, viaModels, primaryModel) ==
    LET Linked(row) ==
            \E k \in DOMAIN viaModels :
                /\ viaModels[k] # NullModel
                /\ GetModelKey(viaModels[k], LinkKeys(def.viaLink))
                       = GetModelKey(primaryModel, LinkValues(def.viaLink))
                /\ GetModelKey(row, LinkKeys(def.link))
                       = GetModelKey(viaModels[k], LinkValues(def.link))
    IN SelectSeq(rows, Linked)

\* C4: through a junction (via table or via relation) a primary model gets a
\* related row if and only if some junction row links the model's key to the
\* row's key, and gets it once, however many junction rows link the two.
C4_ThroughJunction ==
    \A r \in DOMAIN rel :
        (rel[r].pc = "done" /\ scn.rels[r].via # "none") =>
            \A i \in DOMAIN scn.primaryModels :
                rel[r].value[i] =
                    ValueOf(RowsLinkedThrough(scn.rels[r].target, scn.rels[r],
                                              rel[r].viaModels, scn.primaryModels[i]),
                            scn.rels[r].multiple)

\* Two junction rows link the same primary model to the same related row, and
\* the model holds that row.
C4_Witness ==
    \E r \in DOMAIN rel :
        /\ rel[r].pc = "done" /\ scn.rels[r].via # "none" /\ scn.rels[r].multiple
        /\ \E k, l \in DOMAIN rel[r].viaModels :
              /\ k # l
              /\ rel[r].viaModels[k].a = rel[r].viaModels[l].a
              /\ rel[r].viaModels[k].b = rel[r].viaModels[l].b
              /\ rel[r].viaModels[k].a # Null
              /\ \E i \in DOMAIN scn.primaryModels :
                    /\ scn.primaryModels[i].id = rel[r].viaModels[k].b
                    /\ rel[r].value[i].items # <<>>

\* The rows a junction query or via query of the log has returned.
ViaResultOf(entry) ==
    IF entry.method = "one"
    THEN <<QueryOne(scn.rels[entry.rel].junction, entry.where)>>
    ELSE QueryAll(scn.rels[entry.rel].junction, entry.where)

\* C7: once findWith has returned its promise, every sibling relation is
\* started before the first query is issued (none waits for another); and the
\* target query of a relation with via is issued only after that relation's
\* junction or via query has completed, filtered by the rows it returned.
C7_SiblingsTogetherViaFirst ==
    /\ (fw = "pending" /\ queryLog # <<>>) =>
           \A r \in DOMAIN rel : rel[r].pc # "idle"
    /\ \A k \in DOMAIN queryLog :
           (queryLog[k].table = "target" /\ scn.rels[queryLog[k].rel].via # "none") =>
               \E j \in 1..(k - 1) :
                   /\ queryLog[j].rel = queryLog[k].rel
                   /\ queryLog[j].table = "via"
                   /\ queryLog[j].done
                   /\ queryLog[k].where =
                          FilterByModels(<<>>, scn.rels[queryLog[k].rel].link,
                                         ViaResultOf(queryLog[j]))

\* Two siblings in flight at once: the junction query of the second was issued
\* first, then the query of the first, then the target query of the second.
C7_Witness ==
    /\ Len(scn.rels) = 2 /\ fw = "pending"
    /\ Len(queryLog) = 3
    /\ queryLog[1].rel = 2 /\ queryLog[1].table = "via" /\ queryLog[1].done
    /\ queryLog[2].rel = 1 /\ ~queryLog[2].done
    /\ queryLog[3].rel = 2 /\ queryLog[3].table = "target"
    /\ queryLog[3].where[1].vals # <<>>

(***************************************************************************)
(* Lazy loading: findFor and prepare of a relation query                   *)
(*                                                                         *)
(* lq is the relation query that a getter of the primary model returned    *)
(* (primaryModel set): its declaration, the tables it reads, its _where    *)
(* and the _where of its viaTable query.  calls are the findFor() calls on *)
(* it, each with its position in prepare().                                *)
(***************************************************************************)
\* A condition the getter itself adds, as in hasMany(...).andWhere('total > 50')
GetterCondition == InCondition(<<"b">>, << <<1>> >>)

\* The declarations of the relation the getter returns.
DirectDefs ==
    UNION { { RelationDef(link, multiple, "none", link, TRUE, inverseOf, target, <<>>) :
                target \in Tables(0, MaxRows, LinkKeys(link)),
                multiple \in BOOLEAN,
                inverseOf \in { "none", "single", "multiple" } } :
            link \in { HasManyLink, BelongsToLink } }

CompositeDefs ==
    { RelationDef(link, multiple, "none", link, TRUE, "none", target, <<>>) :
        link \in { CompositeLink, MixedCompositeLink },
        target \in CompositeTables(1, 1), multiple \in BOOLEAN }

ViaDefs ==
    { RelationDef(ThroughLink, multiple, via[1], JunctionLink, via[2], "none",
                  target, junction) :
        junction \in Tables(0, MaxRows, <<"a", "b">>),
        target \in Tables(MaxRows, MaxRows, <<"id">>),
        multiple \in BOOLEAN, via \in ViaKinds }

InvalidLinkDefs ==
    { RelationDef(InvalidLink, TRUE, via, JunctionLink, TRUE, "none",
                  <<Row(1, Null, Null)>>, <<Row(1, 1, 1)>>) :
        via \in { "none", "table" } }

LazyDefs == DirectDefs \cup CompositeDefs \cup ViaDefs \cup InvalidLinkDefs

LazyQuery(def, primaryModel, where) ==
    [def |-> def, primaryModel |-> primaryModel, where |-> where, viaWhere |-> <<>>]

NoLazyQuery ==
    LazyQuery(RelationDef(InvalidLink, FALSE, "none", InvalidLink, FALSE, "none",
                          <<>>, <<>>),
              NullModel, <<>>)

NewCall(where) ==
    [pc |-> "called", before |-> where, saved |-> <<>>, result |-> <<>>,
     viaModels |-> <<>>, viaValue |-> NotPopulated,
     related |-> <<>>, inverse |-> <<>>]

LazyInit ==
    /\ \E def \in LazyDefs, where \in { <<>>, <<GetterCondition>> } :
          \E primaryModels \in Tables(1, 1, <<"a", "b">>) :
              lq = LazyQuery(def, primaryModels[1], where)
    /\ calls = <<>>
    /\ lazyLog = <<>>

\* No lazy loading.
LazyIdle ==
    /\ lq = NoLazyQuery
    /\ calls = <<>>
    /\ lazyLog = <<>>

NoCallInFlight == \A c \in DOMAIN calls : calls[c].pc \in { "done", "rejected" }

\* findFor(name, model): this.all() or this.one(), which build the command,
\* which calls prepare(); prepare returns a promise and has not read link.
findFor ==
    /\ Len(calls) < MaxCalls
    /\ calls' = Append(calls, NewCall(lq.where))
    /\ UNCHANGED <<lq, lazyLog>>

\* prepare, first step: var where = Jii._.clone(this._where)
prepareClone(c) ==
    /\ calls[c].pc = "called"
    /\ calls' = [calls EXCEPT ![c] = [@ EXCEPT !.pc = "cloned", !.saved = lq.where]]
    /\ UNCHANGED <<lq, lazyLog>>

\* this.primaryModel.populateRelation(viaName, viaModels) or (viaName, model)
ValueOfVia(viaModels, viaMultiple) ==
    IF viaMultiple THEN ManyValue(Ids(viaModels)) ELSE OneValue(Ids(viaModels))

\* viaQuery.one() gives a model or null: model === null ? [] : [model]
ViaModelsOf(def, where) ==
    IF def.via = "relation" /\ ~def.viaMultiple
    THEN IF QueryOne(def.junction, where) = NullModel
         THEN <<>> ELSE <<QueryOne(def.junction, where)>>
    ELSE QueryAll(def.junction, where)

\* prepare, second step: without via the query is filtered by the primary
\* model; with a via table _findJunctionRows filters the junction query by the
\* primary model and issues it; with a via relation the via query, itself a
\* lazy relation of the primary model, is issued.
prepareFilter(c) ==
    /\ calls[c].pc = "cloned"
    /\ LET def == lq.def
           viaWhere == FilterByModels(lq.viaWhere, def.viaLink, <<lq.primaryModel>>)
       IN IF def.via = "none"
          THEN /\ lq' = [lq EXCEPT !.where =
                            FilterByModels(lq.where, def.link, <<lq.primaryModel>>)]
               /\ calls' = [calls EXCEPT ![c] = [@ EXCEPT !.pc = "filtered"]]
               /\ UNCHANGED lazyLog
          ELSE /\ lq' = IF def.via = "table"
                        THEN [lq EXCEPT !.viaWhere = viaWhere] ELSE lq
               /\ calls' = [calls EXCEPT ![c] = [@ EXCEPT !.pc = "via"]]
               /\ lazyLog' = Append(lazyLog,
                      QueryEntry(c, "via",
                                 IF def.via = "relation" /\ ~def.viaMultiple
                                 THEN "one" ELSE "all",
                                 viaWhere))

\* prepare, the via models arrive: a via relation is populated into the
\* primary model, then this._filterByModels(viaModels)
prepareViaDone(c) ==
    /\ calls[c].pc = "via"
    /\ LET def == lq.def
           entry == CHOOSE e \in SeqToSet(lazyLog) : e.rel = c /\ e.table = "via"
           viaModels == ViaModelsOf(def, entry.where)
       IN /\ lq' = [lq EXCEPT !.where = FilterByModels(lq.where, def.link, viaModels)]
          /\ calls' = [calls EXCEPT ![c] =
                          [@ EXCEPT !.pc = "filtered", !.viaModels = viaModels,
                                    !.viaValue =
                                        IF def.via = "table" THEN NotPopulated
                                        ELSE ValueOfVia(viaModels, def.viaMultiple)]]
          /\ lazyLog' = MarkDone(lazyLog, c, "via")

\* this._where = where
BrokenRestoredWhere(saved, where) == where
RestoredWhere(saved, where) == saved

\* prepare, last step: query = Query.createFromQuery(this); this._where = where;
\* the query is returned, compiled and sent.
prepareFinish(c) ==
    /\ calls[c].pc = "filtered"
    /\ calls' = [calls EXCEPT ![c] = [@ EXCEPT !.pc = "prepared", !.result = lq.where]]
    /\ lq' = [lq EXCEPT !.where = RestoredWhere(calls[c].saved, lq.where)]
    /\ lazyLog' = Append(lazyLog,
           QueryEntry(c, "target", IF lq.def.multiple THEN "all" ELSE "one", lq.where))

\* The inverse relation findFor gives a related record: [model] or model
InverseOfFound(def, model) ==
    IF def.inverseOf = "multiple" THEN ManyValue(<<model.id>>) ELSE OneValue(<<model.id>>)

\* The query completes and findFor populates the inverse relation of what it
\* found.
queryDone(c) ==
    /\ calls[c].pc = "prepared"
    /\ LET def == lq.def
           found == IF def.multiple THEN QueryAll(def.target, calls[c].result)
                    ELSE IF QueryOne(def.target, calls[c].result) = NullModel
                         THEN <<>> ELSE <<QueryOne(def.target, calls[c].result)>>
           inverse == [i \in DOMAIN found |->
                          IF def.inverseOf = "none" THEN NotPopulated
                          ELSE InverseOfFound(def, lq.primaryModel)]
       IN calls' = [calls EXCEPT ![c] =
                       [@ EXCEPT !.pc = "done", !.related = found, !.inverse = inverse]]
    /\ lazyLog' = MarkDone(lazyLog, c, "target")
    /\ UNCHANGED lq

\* The query of a relation whose link is not an object fails when it is
\* compiled or run, or completes as above.
queryFails(c) ==
    /\ calls[c].pc = "prepared"
    /\ ~lq.def.link.isObject
    /\ calls' = [calls EXCEPT ![c] = [@ EXCEPT !.pc = "rejected"]]
    /\ lazyLog' = MarkDone(lazyLog, c, "target")
    /\ UNCHANGED lq

(***************************************************************************)
(* Claims about lazy loading, inverse relations and invalid links          *)
(***************************************************************************)
\* The models prepare() filters the relation query by.
FilterModelsOf(c) ==
    IF lq.def.via = "none" THEN <<lq.primaryModel>> ELSE calls[c].viaModels

\* C2: when prepare() of a lazy relation query has completed, the query's own
\* where is what it was before the call, and the key filter is in the where of
\* the returned Query only.
C2_WhereRestored ==
    \A c \in DOMAIN calls :
        (c = Len(calls) /\ calls[c].pc \in { "prepared", "done", "rejected" }) =>
            /\ lq.where = calls[c].before
            /\ calls[c].result =
                   FilterByModels(calls[c].before, lq.def.link, FilterModelsOf(c))

\* The second prepare() of a relation through a junction table, on a query
\* that came with a condition of its own.
C2_Witness ==
    /\ Len(calls) = 2 /\ calls[2].pc = "prepared"
    /\ lq.def.via = "table"
    /\ calls[2].before = <<GetterCondition>>
    /\ Len(calls[2].result) = 2 /\ calls[2].result[2].vals # <<>>
    /\ lq.where = <<GetterCondition>>

\* C5: a relation that declares inverseOf, once resolved, has set the inverse
\* relation of every related record it loaded to the primary model the record
\* was loaded for (in a list when the inverse relation is multiple): eagerly
\* through populateRelation, lazily through findFor.
C5_InverseBackPopulated ==
    /\ \A r \in DOMAIN rel :
           (scn.rels[r].inverseOf # "none" /\ rel[r].pc \in { "done", "rejected" }) =>
               /\ rel[r].pc = "done"
               /\ \A i \in DOMAIN scn.primaryModels :
                      \A k \in DOMAIN rel[r].value[i].items :
                          LET back == rel[r].inverse[rel[r].value[i].items[k]]
                          IN /\ back.set
                             /\ back.isList = (scn.rels[r].inverseOf = "multiple")
                             /\ \E p \in DOMAIN back.items :
                                    /\ back.items[p] \in DOMAIN scn.primaryModels
                                    /\ rel[r].value[i].items[k]
                                           \in SeqToSet(rel[r].value[back.items[p]].items)
                             /\ back.isList =>
                                    scn.primaryModels[i].id \in SeqToSet(back.items)
    /\ \A c \in DOMAIN calls :
           (lq.def.inverseOf # "none" /\ calls[c].pc = "done") =>
               \A i \in DOMAIN calls[c].related :
                   /\ calls[c].inverse[i].set
                   /\ calls[c].inverse[i].isList = (lq.def.inverseOf = "multiple")
                   /\ calls[c].inverse[i].items = <<lq.primaryModel.id>>

\* C8: a relation whose link is not an object is refused when it is resolved,
\* by an exception thrown before populateRelation (eager) or findFor / prepare
\* (lazy) returns and before any of its queries is issued.
C8_InvalidLinkThrows ==
    /\ \A r \in DOMAIN rel :
           (~scn.rels[r].link.isObject /\ fw # "idle") =>
               /\ rel[r].pc = "thrown"
               /\ \A k \in DOMAIN queryLog : queryLog[k].rel # r
    /\ \A c \in DOMAIN calls :
           ~lq.def.link.isObject =>
               /\ calls[c].pc = "thrown"
               /\ lazyLog = <<>>

(***************************************************************************)
(* ActiveQuery.populate(rows) and _removeDuplicatedModels                  *)
(*                                                                         *)
(* pop is one populate() call on a primary query without with() and        *)
(* without indexBy: the rows of the result (a join repeats a primary key), *)
(* whether the query has joins, asArray, the primary key of the model      *)
(* class, and whether the runtime has a global `_` (the file defines       *)
(* none).  A model is named by the position of its row.                    *)
(***************************************************************************)
PrimaryKeys == { <<"id">>, <<"a", "b">> }

\* The rows of a result: the columns of the primary key hold key values.
ResultRows(pks) ==
    UNION { { [i \in 1..n |-> Row(f[i][1], f[i][2], f[i][3])] :
                f \in [1..n -> (IF "id" \in SeqToSet(pks) THEN KeyValues ELSE {Null})
                                  \X (IF "a" \in SeqToSet(pks) THEN KeyValues ELSE {Null})
                                  \X (IF "b" \in SeqToSet(pks) THEN KeyValues ELSE {Null})] } :
            n \in 0..MaxResult }

PopulateCall(rows, asArray, hasJoin, pks, underscore) ==
    [rows |-> rows, asArray |-> asArray, hasJoin |-> hasJoin, pks |-> pks,
     underscore |-> underscore, pc |-> "idle", models |-> <<>>, error |-> "none"]

PopulateInit ==
    \E pks \in PrimaryKeys, asArray \in BOOLEAN, hasJoin \in BOOLEAN,
       underscore \in BOOLEAN :
        \E rows \in ResultRows(pks) :
            pop = PopulateCall(rows, asArray, hasJoin, pks, underscore)

\* No populate() call.
PopulateIdle == pop = PopulateCall(<<>>, FALSE, FALSE, <<"id">>, FALSE)

\* _createModels(rows) without indexBy: the rows themselves (asArray) or one
\* record for each row
CreateModels(rows, asArray) ==
    [i \in DOMAIN rows |-> [isRecord |-> ~asArray, row |-> rows[i], pos |-> i]]

\* The loop of _removeDuplicatedModels: a model is kept when hash has not its
\* key yet.
RECURSIVE DistinctFrom(_, _, _, _, _)
DistinctFrom(models, i, pks, hash, newModels) ==
    IF i > Len(models) THEN newModels
    ELSE LET key == GetModelKey(models[i].row, pks)
         IN IF key \in hash
            THEN DistinctFrom(models, i + 1, pks, hash, newModels)
            ELSE DistinctFrom(models, i + 1, pks, hash \cup {key},
                              Append(newModels, models[i].pos))

\* _removeDuplicatedModels(models): model.get(pk) is called on every model,
\* and a plain row has no get; with a composite key the inner loop is
\* `_.each`, not `Jii._.each`.
RemoveDuplicatedModels(models, pks, underscore) ==
    IF Len(pks) > 1 /\ ~underscore
    THEN [error |-> "ReferenceError", models |-> <<>>]
    ELSE IF ~models[1].isRecord
         THEN [error |-> "TypeError", models |-> <<>>]
         ELSE [error |-> "none", models |-> DistinctFrom(models, 1, pks, {}, <<>>)]

\* populate(rows), up to the promise it returns: empty rows give [] at once;
\* otherwise the models are created and, when the query has joins,
\* duplicates are removed.
populate ==
    /\ pop.pc = "idle"
    /\ LET models == CreateModels(pop.rows, pop.asArray)
           distinct == IF pop.hasJoin
                       THEN RemoveDuplicatedModels(models, pop.pks, pop.underscore)
                       ELSE [error |-> "none",
                             models |-> [i \in DOMAIN models |-> models[i].pos]]
       IN IF pop.rows = <<>>
          THEN pop' = [pop EXCEPT !.pc = "returned"]
          ELSE IF distinct.error # "none"
               THEN pop' = [pop EXCEPT !.pc = "thrown", !.error = distinct.error]
               ELSE pop' = [pop EXCEPT !.pc = "pending", !.models = distinct.models]

\* The promise of populate resolves with the models (afterFind is called on
\* records).
populateResolved ==
    /\ pop.pc = "pending"
    /\ pop' = [pop EXCEPT !.pc = "returned"]

\* The positions of the rows whose primary key no earlier row has.
FirstOfEachKey(rows, pks) ==
    LET First(i) == \A j \in 1..(i - 1) :
                        GetModelKey(rows[j], pks) # GetModelKey(rows[i], pks)
        Positions == [i \in DOMAIN rows |-> i]
    IN SelectSeq(Positions, First)

\* C6: populate(rows) on a query that has joins (and no indexBy) returns one
\* result for each distinct primary key, the first of its rows, in the order
\* of the rows; the key is compared as a whole tuple; for records and for
\* asArray alike.
C6_OnePerPrimaryKey ==
    (pop.hasJoin /\ pop.pc \in { "returned", "thrown" }) =>
        /\ pop.pc = "returned"
        /\ pop.models = FirstOfEachKey(pop.rows, pop.pks)

(***************************************************************************)
(* Jii.sql.BaseSchema: loadTableSchema, loadTableNames, loadTableSchemas   *)
(* and refresh over the caches _tables and _tableNames                     *)
(*                                                                         *)
(* The driver's work is that of the schema loader above: every entry of    *)
(* loads is one _loadTableSchema() call, and the steps findColumnsDone and *)
(* findConstraintsDone complete its queries.  A promise's then() handlers  *)
(* run before any other completion is delivered, so each completion below  *)
(* carries the handlers that hang on it.                                   *)
(***************************************************************************)
\* The keys of _tableNames: '' is the current schema
SchemaKeys == { "", "main" }

\* An entry of _tables: _has(this._tables, name) and this._tables[name]
NoEntry == [has |-> FALSE, table |-> NullTable]
Entry(table) == [has |-> TRUE, table |-> table]

\* An entry of _tableNames
NoNames == [has |-> FALSE, names |-> <<>>]
Names(names) == [has |-> TRUE, names |-> names]

\* this._tables = {} and this._tableNames = {}
EmptyTables == [name \in CacheKeys |-> NoEntry]
EmptyTableNames == [schema \in SchemaKeys |-> NoNames]

\* SHOW TABLES: the names of the tables that exist, in the server's order
ShowTables(existing) ==
    SelectSeq(<<"customer", "order_item">>, LAMBDA name : name \in existing)

\* A call and its promise.  kind is "table" (loadTableSchema), "names"
\* (loadTableNames) or "schemas" (loadTableSchemas); parent is the
\* loadTableSchemas call that made it, 0 when the program's user made it;
\* load is the _loadTableSchema() call it waits for, 0 when it waits for none;
\* hit tells that the cache answered it, cached that the cache held an entry
\* for arg when the call was made.
Op(kind, arg, refresh, parent, load, hit, out, table, names, tables) ==
    [kind |-> kind, arg |-> arg, refresh |-> refresh, parent |-> parent,
     load |-> load, hit |-> hit, out |-> out, table |-> table, names |-> names,
     tables |-> tables, fromRefresh |-> FALSE, cached |-> FALSE]

\* The _loadTableSchema(realName) call that loadTableSchema starts.
NewLoad(name) ==
    [name |-> name, pc |-> "columns", table |-> NewTableSchema(name),
     columnsFailed |-> FALSE, createFailed |-> FALSE, out |-> Pending]

\* if (_has(this._tables, name) && !refresh)
BrokenCacheHit(cache, key, refresh) == cache[key].has /\ refresh
CacheHit(cache, key, refresh) == cache[key].has /\ ~refresh

\* The program's state while a handler runs.
Sys(ls, os, tc, nc) == [loads |-> ls, ops |-> os, tables |-> tc, names |-> nc]

\* loadTableSchema(name, refresh): the cached entry, or a _loadTableSchema()
\* call whose result the then() handler will store.
LoadTableSchema(sys, name, refresh, parent) ==
    LET cached == sys.tables[name].has
    IN IF CacheHit(sys.tables, name, refresh)
       THEN [sys EXCEPT !.ops =
                Append(@, [Op("table", name, refresh, parent, 0, TRUE, "resolved",
                              sys.tables[name].table, <<>>, <<>>)
                           EXCEPT !.cached = cached])]
       ELSE [sys EXCEPT
                !.loads = Append(@, NewLoad(GetRawTableName(name))),
                !.ops = Append(@, [Op("table", name, refresh, parent,
                                      Len(sys.loads) + 1, FALSE, "pending",
                                      NullTable, <<>>, <<>>)
                                   EXCEPT !.cached = cached])]

\* loadTableNames(schema, refresh): the cached names, or SHOW TABLES whose
\* result the then() handler will store.
LoadTableNames(sys, schema, refresh, parent) ==
    LET cached == sys.names[schema].has
    IN IF CacheHit(sys.names, schema, refresh)
       THEN [sys EXCEPT !.ops =
                Append(@, [Op("names", schema, refresh, parent, 0, TRUE, "resolved",
                              NullTable, sys.names[schema].names, <<>>)
                           EXCEPT !.cached = cached])]
       ELSE [sys EXCEPT !.ops =
                Append(@, [Op("names", schema, refresh, parent, 0, FALSE, "pending",
                              NullTable, <<>>, <<>>)
                           EXCEPT !.cached = cached])]

\* loadTableSchemas: if (table !== null) { tables.push(table); }
PushTable(os, p, table) ==
    IF table.isNull THEN os ELSE [os EXCEPT ![p].tables = Append(@, table)]

\* The loadTableSchema calls that a loadTableSchemas call made.
TableChildren(os, p) ==
    { c \in DOMAIN os : os[c].parent = p /\ os[c].kind = "table" }

\* loadTableSchemas: Promise.all(promises).then(() => tables)
PromiseAll(os, p) ==
    IF os[p].out = "pending" /\ \A c \in TableChildren(os, p) : os[c].out = "resolved"
    THEN [os EXCEPT ![p].out = "resolved"]
    ELSE os

\* loadTableSchemas: the loop over tableNames; a call that the cache answers
\* hands its table on at once.
RECURSIVE LoadEach(_, _, _, _)
LoadEach(sys, names, i, p) ==
    IF i > Len(names) THEN sys
    ELSE LET called == LoadTableSchema(sys, names[i], sys.ops[p].refresh, p)
             child == called.ops[Len(called.ops)]
             pushed ==
                 IF child.hit
                 THEN [called EXCEPT !.ops = PushTable(@, p, child.table)]
                 ELSE called
         IN LoadEach(pushed, names, i + 1, p)

\* loadTableSchemas: the handler of loadTableNames(schema, refresh).then()
NamesLoaded(sys, p, names) ==
    LET loaded == LoadEach(sys, names, 1, p)
    IN [loaded EXCEPT !.ops = PromiseAll(@, p)]

\* loadTableSchemas(schema, refresh) with schema ''
LoadTableSchemas(sys, refresh, fromRefresh) ==
    LET p == Len(sys.ops) + 1
        started ==
            [sys EXCEPT !.ops =
                Append(@, [Op("schemas", "", refresh, 0, 0, FALSE, "pending",
                              NullTable, <<>>, <<>>)
                           EXCEPT !.fromRefresh = fromRefresh])]
        named == LoadTableNames(started, "", refresh, p)
        child == named.ops[Len(named.ops)]
    IN IF child.hit THEN NamesLoaded(named, p, child.names) ELSE named

\* this._tables[name] = table
BrokenStoreTable(cache, name, table) ==
    [cache EXCEPT ![name] = Entry([table EXCEPT !.columns = cache[name].table.columns])]
StoreTable(cache, name, table) == [cache EXCEPT ![name] = Entry(table)]

\* The _loadTableSchema() call i has settled: loadTableSchema stores and
\* returns its table, or is rejected with it; the loadTableSchemas call that
\* waits for it goes on.
LoadSettled(sys, i) ==
    LET c == CHOOSE c \in DOMAIN sys.ops : sys.ops[c].load = i
        name == sys.ops[c].arg
        p == sys.ops[c].parent
        load == sys.loads[i]
    IN IF load.out.state = "resolved"
       THEN LET table == load.table
                stored == [sys.ops EXCEPT ![c].out = "resolved", ![c].table = table]
            IN [sys EXCEPT
                   !.tables = StoreTable(@, name, table),
                   !.ops = IF p = 0 THEN stored
                           ELSE PromiseAll(PushTable(stored, p, table), p)]
       ELSE LET failed == [sys.ops EXCEPT ![c].out = "rejected"]
            IN [sys EXCEPT
                   !.ops = IF p # 0 /\ failed[p].out = "pending"
                           THEN [failed EXCEPT ![p].out = "rejected"]
                           ELSE failed]

\* The names the program's user asks for, and the tables among them that may
\* exist.
CacheNames == { "customer", "nonexisting_table" }
CacheTables == CacheNames \cap TableNames

\* The database at the start: any of these tables exists or not.
CacheDbInit ==
    /\ dbTables \in SUBSET CacheTables
    /\ ddlCount = 0
    /\ loads = <<>>

CacheInit ==
    /\ tablesCache = EmptyTables
    /\ namesCache = EmptyTableNames
    /\ ops = <<>>

\* A schema whose caches are not used.
CacheIdle ==
    /\ tablesCache = EmptyTables
    /\ namesCache = EmptyTableNames
    /\ ops = <<>>

\* The calls the program's user has made.
UserCalls == { c \in DOMAIN ops : ops[c].parent = 0 }

\* The state after a handler: there is room for the loads it has started.
Becomes(sys) ==
    /\ Len(sys.loads) <= MaxCacheLoads
    /\ loads' = sys.loads
    /\ ops' = sys.ops
    /\ tablesCache' = sys.tables
    /\ namesCache' = sys.names

Now == Sys(loads, ops, tablesCache, namesCache)

\* loadTableSchema(name, refresh), called by the program's user
loadTableSchema(name, refresh) ==
    /\ Cardinality(UserCalls) < MaxSchemaCalls
    /\ Becomes(LoadTableSchema(Now, name, refresh, 0))
    /\ UNCHANGED <<dbTables, ddlCount>>

\* loadTableNames(schema, refresh), called by the program's user
loadTableNames(schema, refresh) ==
    /\ Cardinality(UserCalls) < MaxSchemaCalls
    /\ Becomes(LoadTableNames(Now, schema, refresh, 0))
    /\ UNCHANGED <<dbTables, ddlCount>>

\* loadTableSchemas(schema, refresh) with schema '', called by the program's
\* user
loadTableSchemas(refresh) ==
    /\ Cardinality(UserCalls) < MaxSchemaCalls
    /\ Becomes(LoadTableSchemas(Now, refresh, FALSE))
    /\ UNCHANGED <<dbTables, ddlCount>>

\* refresh(): both caches are replaced by empty ones, then loadTableSchemas()
refresh ==
    /\ Cardinality(UserCalls) < MaxSchemaCalls
    /\ Becomes(LoadTableSchemas(Sys(loads, ops, EmptyTables, EmptyTableNames),
                                FALSE, TRUE))
    /\ UNCHANGED <<dbTables, ddlCount>>

\* SHOW TABLES completes: loadTableNames stores and returns the names, and the
\* loadTableSchemas call that waits for them loads every table.
showTablesDone(c) ==
    /\ ops[c].kind = "names" /\ ops[c].out = "pending"
    /\ LET names == ShowTables(dbTables)
           stored ==
               [Now EXCEPT
                   !.names = [@ EXCEPT ![ops[c].arg] = Names(names)],
                   !.ops = [@ EXCEPT ![c].out = "resolved", ![c].names = names]]
       IN Becomes(IF ops[c].parent = 0 THEN stored
                  ELSE NamesLoaded(stored, ops[c].parent, names))
    /\ UNCHANGED <<dbTables, ddlCount>>

\* The handlers that hang on the _loadTableSchema() call i, once it settles.
ThenHandlers(i) ==
    LET after == Sys(loads', ops, tablesCache, namesCache)
        sys == IF loads'[i].pc = "done" THEN LoadSettled(after, i) ELSE after
    IN /\ ops' = sys.ops
       /\ tablesCache' = sys.tables
       /\ namesCache' = sys.names

\* SHOW FULL COLUMNS completes for a load that loadTableSchema has started.
showColumnsDone(i) == findColumnsDone(i) /\ ThenHandlers(i)

\* SHOW CREATE TABLE completes for a load that loadTableSchema has started.
showCreateTableDone(i) == findConstraintsDone(i) /\ ThenHandlers(i)

\* Another client drops or creates a table.
ddl(name) ==
    /\ ddlCount < MaxCacheDdl
    /\ dropTable(name) \/ createTable(name)
    /\ UNCHANGED cacheVars
(***************************************************************************)
(* Properties of the schema caches                                         *)
(***************************************************************************)
\* The calls made in this step.
NewOps == DOMAIN ops' \ DOMAIN ops

\* A call without the flag, made while its name is cached, is answered with the
\* cached value and starts no _loadTableSchema() call and no SHOW TABLES.
AnsweredFromCache ==
    /\ \A c \in NewOps :
          (ops'[c].kind \in { "table", "names" } /\ ~ops'[c].refresh /\ ops'[c].cached)
              => /\ ops'[c].out = "resolved"
                 /\ ops'[c].load = 0
                 /\ ops'[c].kind = "table" =>
                        ops'[c].table = tablesCache[ops'[c].arg].table
                 /\ ops'[c].kind = "names" =>
                        ops'[c].names = namesCache[ops'[c].arg].names
    /\ Len(loads') - Len(loads) = Cardinality({ c \in NewOps : ops'[c].load # 0 })

\* This step is a call of refresh().
RefreshCalled == \E c \in NewOps : ops'[c].fromRefresh

\* The call c is one that refresh() makes.
OfRefresh(c) == ops[c].parent # 0 /\ ops[ops[c].parent].fromRefresh

\* The calls of a kind for a name whose result this step stores.
Completing(kind, arg) ==
    { c \in DOMAIN ops : /\ ops[c].kind = kind /\ ops[c].arg = arg
                         /\ ops[c].out = "pending" /\ ops'[c].out = "resolved" }

\* The cached entries that this step changes.
ChangedTables ==
    { name \in LoadNames : tablesCache[name].has /\ tablesCache'[name] # tablesCache[name] }
ChangedNames ==
    { schema \in SchemaKeys : namesCache[schema].has /\ namesCache'[schema] # namesCache[schema] }

\* A cached entry changes only in a call of refresh() or when a load with the
\* flag, or a load that refresh() made, stores its result.
ChangedByRefreshOrFlag ==
    /\ \A name \in ChangedTables :
          \/ RefreshCalled
          \/ \E c \in Completing("table", name) : ops[c].refresh \/ OfRefresh(c)
    /\ \A schema \in ChangedNames :
          \/ RefreshCalled
          \/ \E c \in Completing("names", schema) : ops[c].refresh \/ OfRefresh(c)

\* ... or when a load that was called before the entry was cached stores its
\* result.
ChangedByRefreshFlagOrEarlierLoad ==
    /\ \A name \in ChangedTables :
          \/ RefreshCalled
          \/ \E c \in Completing("table", name) :
                ops[c].refresh \/ OfRefresh(c) \/ ~ops[c].cached
    /\ \A schema \in ChangedNames :
          \/ RefreshCalled
          \/ \E c \in Completing("names", schema) :
                ops[c].refresh \/ OfRefresh(c) \/ ~ops[c].cached

\* C11, as stated: a loadTableSchema(name) or loadTableNames(schema) call
\* without the force-refresh flag on a cached name returns the cached value
\* (a cached null too) without calling the driver, and a cached entry changes
\* only through refresh() or a load with the flag.
C11_OnlyRefreshOrFlag == [][AnsweredFromCache /\ ChangedByRefreshOrFlag]_vars

\* C11, amended: as above, but a cached entry also changes when a load called
\* before the entry was cached stores its result.
C11_CachedUntilRefreshFlagOrEarlierLoad ==
    [][AnsweredFromCache /\ ChangedByRefreshFlagOrEarlierLoad]_vars

\* A call answered with the cached null of a missing table, and a call of
\* loadTableNames answered with the cached names.
C11_Witness ==
    /\ \E c \in DOMAIN ops :
          /\ ops[c].kind = "table" /\ ops[c].hit /\ ~ops[c].refresh
          /\ ops[c].arg = "nonexisting_table" /\ ops[c].table.isNull
    /\ Cardinality(UserCalls) = MaxSchemaCalls

\* A table as introspection delivers it: all its columns and constraints.
IsComplete(table) ==
    /\ Len(table.columns) = Len(ShowFullColumns(table.name))
    /\ table.foreignKeys = ShowCreateTable(table.name)

\* C12: whatever loads of a name and refresh() are in flight together, the
\* cached entry of the name is the result that one of these loads delivered, a
\* complete TableSchema or null, never a partly filled or merged value.
C12_EntryIsOneDeliveredResult ==
    \A name \in LoadNames :
        tablesCache[name].has =>
            /\ \E i \in DOMAIN loads :
                  /\ loads[i].name = name /\ loads[i].pc = "done"
                  /\ loads[i].out.state = "resolved"
                  /\ loads[i].table = tablesCache[name].table
            /\ tablesCache[name].table.isNull \/ IsComplete(tablesCache[name].table)

\* One load of a name has stored a table while another load of the name and
\* refresh() are still in flight.
C12_Witness ==
    \E i, j \in DOMAIN loads :
        /\ loads[i].name = loads[j].name
        /\ loads[i].pc = "done" /\ loads[j].pc # "done"
        /\ tablesCache[loads[i].name].has
        /\ ~tablesCache[loads[i].name].table.isNull
        /\ \E c \in DOMAIN ops : ops[c].fromRefresh /\ ops[c].out = "pending"

\* The loadTableSchemas calls whose loads have all settled.
SettledSchemas ==
    { p \in DOMAIN ops :
        /\ ops[p].kind = "schemas"
        /\ \E c \in DOMAIN ops :
              ops[c].parent = p /\ ops[c].kind = "names" /\ ops[c].out = "resolved"
        /\ \A c \in TableChildren(ops, p) : ops[c].out # "pending" }

\* C13: loadTableSchemas loads the names and then every named table, and
\* resolves with exactly the tables that are not null: a table whose load
\* gives null is left out, and no error comes of a table that disappeared.
C13_ResolvesWithNonNullTables ==
    \A p \in SettledSchemas :
        /\ ops[p].out = "resolved"
        /\ SeqToSet(ops[p].tables) =
               { ops[c].table : c \in { d \in TableChildren(ops, p) : ~ops[d].table.isNull } }
        /\ Len(ops[p].tables) =
               Cardinality({ d \in TableChildren(ops, p) : ~ops[d].table.isNull })
(***************************************************************************)
(* Jii.sql.TableSchema.fixPrimaryKey                                       *)
(***************************************************************************)
\* The table as _loadTableSchema delivers it.
Introspected(name) ==
    FindConstraints(FindColumnsFrom(NewTableSchema(name), ShowFullColumns(name), 1),
                    ShowCreateTable(name))

\* Jii._.has(this.columns, key)
ColumnNames(table) == { table.columns[i].name : i \in DOMAIN table.columns }

\* The names a caller may pass: the columns of the tables and one that no
\* table has.
KeyNames == UNION { ColumnNames(Introspected(name)) : name \in TableNames } \cup { "uid" }

\* The sequences of at most n names.
SeqsUpTo(names, n) == UNION { [1..k -> names] : k \in 0..n }

\* The argument of fixPrimaryKey: an array of names; a single name stands for
\* the array of it.
KeyArguments == SeqsUpTo(KeyNames, MaxKeys)

\* Jii._.each(this.columns, column => { column.isPrimaryKey = false; })
ClearPrimaryKeys(columns) ==
    [i \in DOMAIN columns |-> [columns[i] EXCEPT !.isPrimaryKey = FALSE]]

\* this.columns[key].isPrimaryKey = true
MarkPrimaryKey(columns, key) ==
    [i \in DOMAIN columns |->
        IF columns[i].name = key THEN [columns[i] EXCEPT !.isPrimaryKey = TRUE]
        ELSE columns[i]]

\* The loop over keys: it marks the columns in turn and throws
\* InvalidParamException at the first key that is no column.
RECURSIVE MarkKeys(_, _, _)
MarkKeys(table, keys, i) ==
    IF i > Len(keys) THEN [table |-> table, thrown |-> FALSE]
    ELSE IF keys[i] \in ColumnNames(table)
         THEN MarkKeys([table EXCEPT !.columns = MarkPrimaryKey(@, keys[i])],
                       keys, i + 1)
         ELSE [table |-> table, thrown |-> TRUE]

\* this.primaryKey = keys
AssignedKeys(table, keys) == keys

\* fixPrimaryKey(keys): the table afterwards and whether the call threw
FixPrimaryKey(table, keys) ==
    LET assigned == [table EXCEPT !.primaryKey = AssignedKeys(table, keys)]
        cleared == [assigned EXCEPT !.columns = ClearPrimaryKeys(@)]
    IN MarkKeys(cleared, keys, 1)

FixInit ==
    \E name \in TableNames :
        tbl = [table |-> Introspected(name), calls |-> 0, thrown |-> FALSE]

\* No TableSchema in use.
FixIdle == tbl = [table |-> NullTable, calls |-> 0, thrown |-> FALSE]

fixPrimaryKey(keys) ==
    /\ tbl.calls < MaxFixCalls
    /\ LET fixed == FixPrimaryKey(tbl.table, keys)
       IN tbl' = [table |-> fixed.table, calls |-> tbl.calls + 1,
                  thrown |-> fixed.thrown]

\* C14: every column name in primaryKey of a TableSchema is a key of its
\* columns, after introspection and after every fixPrimaryKey(keys) call, one
\* that throws for an unknown key included.
C14_PrimaryKeyInColumns ==
    SeqToSet(tbl.table.primaryKey) \subseteq ColumnNames(tbl.table)
(***************************************************************************)
(* Jii.sql.QueryBuilder: buildCondition and buildWhere for the operators   *)
(* of the IN and LIKE families                                             *)
(***************************************************************************)
\* The character that quotes a name in MySQL, the backquote; it is written as
\* an apostrophe here, for a string of TLA+ cannot hold a backquote.
Backquote == "'"

\* The operators of the two families, as a caller writes them.
InOperators == { "in", "not in", "IN", "NOT IN" }
LikeOperators ==
    { "like", "not like", "or like", "or not like", "LIKE", "NOT LIKE" }

\* condition[0].toUpperCase()
ToUpperCase(operator) ==
    CASE operator \in { "in", "IN" } -> "IN"
      [] operator \in { "not in", "NOT IN" } -> "NOT IN"
      [] operator \in { "like", "LIKE" } -> "LIKE"
      [] operator \in { "not like", "NOT LIKE" } -> "NOT LIKE"
      [] operator = "or like" -> "OR LIKE"
      [] operator = "or not like" -> "OR NOT LIKE"
      [] operator = "exists" -> "EXISTS"
      [] operator = "not exists" -> "NOT EXISTS"
      [] operator = "between" -> "BETWEEN"
      [] operator = "not between" -> "NOT BETWEEN"
      [] operator = "not" -> "NOT"
      [] operator = "and" -> "AND"
      [] operator = "or" -> "OR"
      [] OTHER -> operator

\* The columns and the values of the conditions.
CondColumns == { "id", "name" }
CondValues == { "foo", "bar" }

\* The list operand: at most MaxValues values.
ValueLists == UNION { [1..k -> CondValues] : k \in 0..MaxValues }

\* db.quoteColumnName(column)
QuoteColumnName(column) == Backquote \o column \o Backquote

\* PARAM_PREFIX + the number of parameters bound so far
Placeholder(n) == ":qp" \o ToString(n)

\* parts.join(separator)
RECURSIVE Join(_, _, _)
Join(parts, separator, i) ==
    IF i > Len(parts) THEN ""
    ELSE IF i = Len(parts) THEN parts[i]
    ELSE parts[i] \o separator \o Join(parts, separator, i + 1)

\* buildInCondition(operator, operands): an empty list of values gives 0=1
\* for IN and the empty string for NOT IN.
BrokenBuildInCondition(operator, column, values) ==
    IF values = <<>> THEN "0=1"
    ELSE QuoteColumnName(column) \o " " \o operator \o " ("
         \o Join([i \in DOMAIN values |-> Placeholder(i - 1)], ", ", 1) \o ")"
BuildInCondition(operator, column, values) ==
    IF values = <<>> THEN IF operator = "IN" THEN "0=1" ELSE ""
    ELSE QuoteColumnName(column) \o " " \o operator \o " ("
         \o Join([i \in DOMAIN values |-> Placeholder(i - 1)], ", ", 1) \o ")"

\* buildLikeCondition(operator, operands): one LIKE or NOT LIKE per value,
\* joined by AND, or by OR for the operators that begin with OR; an empty
\* list of values gives 0=1, or the empty string for the NOT operators.
BuildLikeCondition(operator, column, values) ==
    LET andor == IF operator \in { "OR LIKE", "OR NOT LIKE" } THEN " OR " ELSE " AND "
        isNot == operator \in { "NOT LIKE", "OR NOT LIKE" }
        parsedOperator == IF isNot THEN "NOT LIKE" ELSE "LIKE"
    IN IF values = <<>> THEN IF isNot THEN "" ELSE "0=1"
       ELSE Join([i \in DOMAIN values |->
                     QuoteColumnName(column) \o " " \o parsedOperator \o " "
                     \o Placeholder(i - 1)], andor, 1)

\* buildCondition(condition, params) for the operator format: the builder of
\* the operator compiles the operands.
BuildCondition(condition) ==
    LET operator == ToUpperCase(condition[1])
    IN IF operator \in { "IN", "NOT IN" }
       THEN BuildInCondition(operator, condition[2], condition[3])
       ELSE BuildLikeCondition(operator, condition[2], condition[3])

\* buildWhere(condition, params): no WHERE clause for an empty condition
BuildWhere(condition) ==
    LET where == BuildCondition(condition)
    IN IF where = "" THEN "" ELSE "WHERE " \o where

\* A condition that no call has been made with, and the row to evaluate it
\* against.
NewCondition(condition, row) ==
    [condition |-> condition, row |-> row, call |-> "none", out |-> "none",
     sql |-> "", result |-> FALSE]

CompileInit ==
    \E operator \in InOperators \cup LikeOperators, column \in CondColumns,
       values \in ValueLists :
        cnd = NewCondition(<<operator, column, values>>, <<>>)

\* No condition in use.
CondIdle == cnd = NewCondition(<<>>, <<>>)

\* queryBuilder.buildCondition(condition, params)
buildCondition ==
    /\ cnd.call = "none"
    /\ cnd' = [cnd EXCEPT !.call = "buildCondition", !.out = "resolved",
                          !.sql = BuildCondition(cnd.condition)]

\* queryBuilder.buildWhere(condition, params)
buildWhere ==
    /\ cnd.call = "none"
    /\ cnd' = [cnd EXCEPT !.call = "buildWhere", !.out = "resolved",
                          !.sql = BuildWhere(cnd.condition)]

\* The condition has an empty list of values and this operator.
EmptyListOf(operators) ==
    /\ cnd.condition[3] = <<>>
    /\ cnd.condition[1] \in operators

\* C15: with an empty list of values, in and like compile to the constant
\* false 0=1, not in and not like compile to the empty string, and then the
\* query has no WHERE clause when this is its only condition.
C15_EmptyListAsymmetry ==
    /\ cnd.call = "buildCondition" /\ EmptyListOf({ "in", "like" })
           => cnd.sql = "0=1"
    /\ cnd.call = "buildCondition" /\ EmptyListOf({ "not in", "not like" })
           => cnd.sql = ""
    /\ cnd.call = "buildWhere" /\ EmptyListOf({ "in", "like" })
           => cnd.sql = "WHERE 0=1"
    /\ cnd.call = "buildWhere" /\ EmptyListOf({ "not in", "not like" })
           => cnd.sql = ""

C15_Witness ==
    /\ cnd.call = "buildWhere"
    /\ EmptyListOf({ "not in" })
    /\ cnd.sql = ""
(***************************************************************************)
(* Jii.sql.FilterBuilder: filter(row, query), the evaluation of a          *)
(* condition against a row                                                 *)
(***************************************************************************)
\* The values of JavaScript that the conditions and the rows hold: a number,
\* null, a Jii.sql.Expression, a Jii.sql.Query (a sub-query) and an array of
\* numbers, nulls and Expressions.
Value(kind, n, s, b, items) ==
    [kind |-> kind, n |-> n, s |-> s, b |-> b, items |-> items]
Number(n) == Value("number", n, "", FALSE, <<>>)
NullValue == Value("null", 0, "", FALSE, <<>>)
Expression == Value("expression", 0, "", FALSE, <<>>)
SubQuery == Value("query", 0, "", FALSE, <<>>)
Array(items) == Value("array", 0, "", FALSE, items)

\* The numbers in the rows and in the conditions.
RowNumbers == { 1, 2 }
Items == { Number(n) : n \in RowNumbers } \cup { NullValue, Expression }
Arrays == { Array(items) : items \in UNION { [1..k -> Items] : k \in 0..MaxValues } }

\* The rows: every column holds a number or null.
Rows == [CondColumns -> { Number(n) : n \in RowNumbers } \cup { NullValue }]

\* A condition in operator format, [operator, operand 1, operand 2, ...], in
\* hash format, {column: value, ...}, or empty.  column and value are the
\* operands of the operators that take a column; low and high are the bounds
\* of between; conditions are the operands of not, and, or; pairs are the
\* entries of a hash in their order.
Condition(format, operator, column, value, low, high, conditions, pairs) ==
    [format |-> format, operator |-> operator, column |-> column, value |-> value,
     low |-> low, high |-> high, conditions |-> conditions, pairs |-> pairs]
ColumnCondition(operator, column, value) ==
    Condition("operator", operator, column, value, 0, 0, <<>>, <<>>)
BetweenCondition(operator, column, low, high) ==
    Condition("operator", operator, column, NullValue, low, high, <<>>, <<>>)
ExistsCondition(operator, query) ==
    Condition("operator", operator, "", query, 0, 0, <<>>, <<>>)
LogicalCondition(operator, conditions) ==
    Condition("operator", operator, "", NullValue, 0, 0, conditions, <<>>)
HashCondition(pairs) ==
    Condition("hash", "", "", NullValue, 0, 0, <<>>, pairs)
EmptyCondition == Condition("empty", "", "", NullValue, 0, 0, <<>>, <<>>)

\* The operands of a condition in operator format: condition.shift() leaves
\* them; only their number and their kind matter to the callee that takes
\* them for something else.
OperandsOf(condition) ==
    [kind |-> "array",
     length |-> CASE ToUpperCase(condition.operator) \in { "BETWEEN", "NOT BETWEEN" } -> 3
                  [] ToUpperCase(condition.operator) \in { "EXISTS", "NOT EXISTS" } -> 1
                  [] ToUpperCase(condition.operator) \in { "NOT", "AND", "OR" } ->
                         Len(condition.conditions)
                  [] OTHER -> 2,
     string |-> ""]

\* A string and a row as arguments.
StringArgument(string) == [kind |-> "string", length |-> Len(string), string |-> string]
RowArgument == [kind |-> "object", length |-> 0, string |-> "[object Object]"]

\* What an evaluation gives: a boolean, or the exception it throws.
Boolean(value) == [out |-> "boolean", value |-> value]
Throw(exception) == [out |-> exception, value |-> FALSE]

\* !bool
Negated(result) ==
    IF result.out = "boolean" THEN Boolean(~result.value) ELSE result

\* this._conditionBuilders[operator][0], or filterSimpleCondition
ConditionBuilder(operator) ==
    CASE operator = "NOT" -> "filterNotCondition"
      [] operator \in { "AND", "OR" } -> "filterAndCondition"
      [] operator = "BETWEEN" -> "filterBetweenCondition"
      [] operator = "IN" -> "filterInCondition"
      [] operator \in { "LIKE", "OR LIKE" } -> "filterLikeCondition"
      [] operator = "EXISTS" -> "filterExistsCondition"
      [] OTHER -> "filterSimpleCondition"

\* operator.indexOf('NOT ') !== -1
HasNot(operator) ==
    operator \in { "NOT IN", "NOT LIKE", "OR NOT LIKE", "NOT EXISTS", "NOT BETWEEN" }

\* condition[0].toUpperCase().replace(/NOT /, '')
WithoutNot(operator) ==
    CASE operator = "NOT IN" -> "IN"
      [] operator = "NOT LIKE" -> "LIKE"
      [] operator = "OR NOT LIKE" -> "OR LIKE"
      [] operator = "NOT EXISTS" -> "EXISTS"
      [] operator = "NOT BETWEEN" -> "BETWEEN"
      [] OTHER -> operator

\* Jii._.isEmpty(value): null and a number are empty, an array is when it has
\* no items, an object is when it has no properties of its own
IsEmpty(value) ==
    CASE value.kind \in { "null", "number" } -> TRUE
      [] value.kind = "array" -> value.items = <<>>
      [] OTHER -> FALSE

\* Jii._.isObject(value)
IsObject(value) == value.kind \in { "expression", "query", "array" }

\* row[column] === null
IsNull(row, column) == row[column].kind = "null"

\* row[column] == value, for a number or null in the row and a number as value
LooseEquals(row, column, value) ==
    row[column].kind = "number" /\ row[column].n = value.n

\* The number that <= takes a number or null for.
ToNumber(value) == IF value.kind = "null" THEN 0 ELSE value.n

\* filterInCondition: the function that Jii._.some() calls for each value
InValue(row, column, item) ==
    LET value == IF IsObject(item) THEN NullValue ELSE item
    IN IF value.kind = "null" THEN Boolean(IsNull(row, column))
       ELSE IF value.kind = "expression" THEN Throw("NotSupportedException")
       ELSE Boolean(LooseEquals(row, column, value))

\* Jii._.some(values, ...): true at the first value that gives true; an
\* exception ends it
RECURSIVE SomeValue(_, _, _, _)
SomeValue(row, column, values, i) ==
    IF i > Len(values) THEN Boolean(FALSE)
    ELSE LET result == InValue(row, column, values[i])
         IN IF result.out # "boolean" \/ result.value THEN result
            ELSE SomeValue(row, column, values, i + 1)

\* filterInCondition(row, operator, operands) with a column name as the first
\* operand
FilterInCondition(row, operator, column, values) ==
    IF IsEmpty(values) \/ column = "" THEN Boolean(FALSE)
    ELSE IF values.kind = "query" THEN Throw("NotSupportedException")
    ELSE SomeValue(row, column,
                   IF values.kind = "array" THEN values.items ELSE <<values>>, 1)

\* filterBetweenCondition(row, operator, operands)
FilterBetweenCondition(row, operator, column, low, high) ==
    Boolean(low <= ToNumber(row[column]) /\ ToNumber(row[column]) <= high)

\* /^(AND |OR |)((NOT |)I?LIKE)/.exec(operator)
LikePattern(operator) ==
    /\ operator.kind = "string"
    /\ operator.string \in { "LIKE", "NOT LIKE", "ILIKE", "NOT ILIKE", "OR LIKE",
                             "OR NOT LIKE", "AND LIKE", "AND NOT LIKE" }

\* filterLikeCondition(operator, operands, params)
FilterLikeCondition(operator, operands, params) ==
    IF operands.length # 2 THEN Throw("InvalidParamException")
    ELSE IF ~LikePattern(operator) THEN Throw("InvalidParamException")
    ELSE Throw("NotSupportedException")

\* filterExistsCondition(operator, operands, params)
FilterExistsCondition(operator, operands, params) ==
    Throw("NotSupportedException")

\* filterSimpleCondition(operator, operands, params)
FilterSimpleCondition(operator, operands, params) ==
    IF operands.length # 2 THEN Throw("InvalidParamException")
    ELSE Throw("NotSupportedException")

\* filterHashCondition: the function that Jii._.every() calls for each entry
HashValue(row, column, value) ==
    IF value.kind \in { "array", "query" }
    THEN FilterInCondition(row, "IN", column, value)
    ELSE IF value.kind = "null" THEN Boolean(IsNull(row, column))
    ELSE IF value.kind = "expression" THEN Throw("NotSupportedException")
    ELSE Boolean(LooseEquals(row, column, value))

\* filterHashCondition(row, condition): Jii._.every() gives false at the
\* first entry that gives false; an exception ends it
RECURSIVE FilterHashCondition(_, _, _)
FilterHashCondition(row, pairs, i) ==
    IF i > Len(pairs) THEN Boolean(TRUE)
    ELSE LET result == HashValue(row, pairs[i].column, pairs[i].value)
         IN IF result.out # "boolean" \/ ~result.value THEN result
            ELSE FilterHashCondition(row, pairs, i + 1)

RECURSIVE FilterCondition(_, _)
RECURSIVE FilterAndCondition(_, _, _, _)

\* filterNotCondition(row, operator, operands)
FilterNotCondition(row, operator, operands) ==
    IF Len(operands) # 1 THEN Throw("InvalidParamException")
    ELSE LET bool == FilterCondition(row, operands[1])
         IN IF operator = "NOT" THEN Negated(bool) ELSE bool

\* filterAndCondition(row, operator, operands): every() for AND, some() for
\* OR, over the operands from the i-th on
FilterAndCondition(row, operator, operands, i) ==
    IF i > Len(operands) THEN Boolean(operator = "AND")
    ELSE LET result == FilterCondition(row, operands[i])
         IN IF result.out # "boolean" \/ result.value = (operator # "AND")
            THEN result
            ELSE FilterAndCondition(row, operator, operands, i + 1)

\* this[method].call(this, row, operator, condition): the three arguments go
\* to the three parameters of the method, whatever it names them
CallBuilder(method, row, operator, condition) ==
    CASE method = "filterNotCondition" ->
             FilterNotCondition(row, operator, condition.conditions)
      [] method = "filterAndCondition" ->
             FilterAndCondition(row, operator, condition.conditions, 1)
      [] method = "filterBetweenCondition" ->
             FilterBetweenCondition(row, operator, condition.column,
                                    condition.low, condition.high)
      [] method = "filterInCondition" ->
             FilterInCondition(row, operator, condition.column, condition.value)
      [] method = "filterLikeCondition" ->
             FilterLikeCondition(RowArgument, StringArgument(operator),
                                 OperandsOf(condition))
      [] method = "filterExistsCondition" ->
             FilterExistsCondition(RowArgument, StringArgument(operator),
                                   OperandsOf(condition))
      [] OTHER ->
             FilterSimpleCondition(RowArgument, StringArgument(operator),
                                   OperandsOf(condition))

\* filterCondition(row, condition)
FilterCondition(row, condition) ==
    IF condition.format = "empty" \/ (condition.format = "hash" /\ condition.pairs = <<>>)
    THEN Boolean(TRUE)
    ELSE IF condition.format = "operator"
    THEN LET operator == ToUpperCase(condition.operator)
             method == ConditionBuilder(operator)
         IN IF HasNot(operator)
            THEN FilterNotCondition(row, "NOT",
                     << [condition EXCEPT !.operator = WithoutNot(operator)] >>)
            ELSE CallBuilder(method, row, operator, condition)
    ELSE FilterHashCondition(row, condition.pairs, 1)

\* The conditions with one operator or one hash.
InConditions ==
    { ColumnCondition(operator, "id", value) :
        operator \in { "in", "not in" },
        value \in Arrays \cup { SubQuery, Number(1) } }
LikeConditions ==
    { ColumnCondition(operator, "name", value) :
        operator \in { "like", "not like", "or like", "or not like" },
        value \in { Number(1), Expression, Array(<<>>), Array(<<Number(1)>>) } }
ExistsConditions ==
    { ExistsCondition(operator, SubQuery) : operator \in { "exists", "not exists" } }
SimpleConditions ==
    { ColumnCondition(operator, "id", value) :
        operator \in { "=", ">=" }, value \in { Number(1), NullValue, Expression } }
BetweenConditions ==
    { BetweenCondition(operator, "id", 1, high) :
        operator \in { "between", "not between" }, high \in RowNumbers }
HashValues ==
    { Number(1), NullValue, Expression, SubQuery, Array(<<Number(1)>>),
      Array(<<Expression>>) }
HashPairs == [column : CondColumns, value : HashValues]
HashConditions ==
    { HashCondition(pairs) :
        pairs \in { <<>> } \cup { <<pair>> : pair \in HashPairs }
                  \cup { <<first, second>> : first \in HashPairs,
                             second \in { pair \in HashPairs : pair.column = "name" } } }
LeafConditions ==
    InConditions \cup LikeConditions \cup ExistsConditions \cup SimpleConditions
    \cup BetweenConditions
    \cup { c \in HashConditions :
             Len(c.pairs) = 2 => c.pairs[1].column # c.pairs[2].column }

\* not, and, or over them
IdIsOne == HashCondition(<< [column |-> "id", value |-> Number(1)] >>)
LogicalConditions ==
    { LogicalCondition("not", <<leaf>>) : leaf \in LeafConditions }
    \cup { LogicalCondition(operator, <<IdIsOne, leaf>>) :
             operator \in { "and", "or" }, leaf \in LeafConditions }
    \cup { LogicalCondition(operator, <<leaf, IdIsOne>>) :
             operator \in { "and", "or" }, leaf \in LeafConditions }

FilterInit ==
    \E row \in Rows :
        \/ \E condition \in LeafConditions : cnd = NewCondition(condition, row)
        \/ \E condition \in LogicalConditions : cnd = NewCondition(condition, row)
        \/ cnd = NewCondition(EmptyCondition, row)

\* filterBuilder.filter(row, query), with the condition as query.getWhere()
filter ==
    /\ cnd.call = "none"
    /\ LET result == FilterCondition(cnd.row, cnd.condition)
       IN cnd' = [cnd EXCEPT !.call = "filter", !.out = result.out,
                             !.result = result.value]

\* The value is one that the evaluation cannot take: an Expression, a
\* sub-query, or an array that begins with an Expression.
Unevaluable(value) ==
    \/ value.kind \in { "expression", "query" }
    \/ value.kind = "array" /\ value.items # <<>> /\ value.items[1].kind = "expression"

\* The condition has an operand shape that the evaluation cannot take: an
\* operator of the like family, exists, or such a value as the operand of an
\* operator or as the first value of a hash.
CannotEvaluate(condition) ==
    \/ /\ condition.format = "operator"
       /\ \/ ToUpperCase(condition.operator) \in
                 { "LIKE", "NOT LIKE", "OR LIKE", "OR NOT LIKE", "EXISTS", "NOT EXISTS" }
          \/ /\ ToUpperCase(condition.operator) \in { "IN", "NOT IN", "=", ">=" }
             /\ Unevaluable(condition.value)
    \/ /\ condition.format = "hash"
       /\ condition.pairs # <<>>
       /\ Unevaluable(condition.pairs[1].value)

\* C16: the evaluation of a condition against a row fails with the
\* not-supported error, and neither returns a boolean nor raises another
\* error, for every operand shape it cannot evaluate: sub-queries as operands
\* of in and exists, Expression values, and the like family of operators.
C16_UnsupportedIsNotSupported ==
    cnd.call = "filter" /\ CannotEvaluate(cnd.condition)
        => cnd.out = "NotSupportedException"
(***************************************************************************)
(* Jii.sql.ColumnSchema.typecast(value)                                    *)
(***************************************************************************)
\* The other values of JavaScript that typecast meets: a string, a boolean
\* and NaN.
String(s) == Value("string", 0, s, FALSE, <<>>)
Bool(b) == Value("boolean", 0, "", b, <<>>)
NaN == Value("NaN", 0, "", FALSE, <<>>)

\* The abstract types of Jii.sql.BaseSchema among which typecast and
\* _getColumnJsType tell.
ColumnTypes ==
    { "string", "text", "binary", "smallint", "integer", "bigint", "boolean",
      "float", "decimal", "date" }

\* _getColumnJsType(column)
GetColumnJsType(type, unsigned) ==
    CASE type \in { "smallint", "integer" } -> IF unsigned THEN "string" ELSE "number"
      [] type = "boolean" -> "boolean"
      [] type \in { "float", "decimal" } -> "number"
      [] OTHER -> "string"

\* The columns as the schema loads them.
Columns ==
    { [type |-> type, unsigned |-> unsigned, jsType |-> GetColumnJsType(type, unsigned)] :
        type \in ColumnTypes, unsigned \in BOOLEAN }

\* The numbers and the strings handed to typecast.
CastNumbers == { 0, 1, 12 }
CastStrings == { "", "0", "12", "12abc", "abc", "true" }

\* The values handed to typecast: neither null nor an Expression.
CastValues ==
    { Number(n) : n \in CastNumbers } \cup { String(s) : s \in CastStrings }
    \cup { Bool(b) : b \in BOOLEAN } \cup { NaN }
    \cup { Array(<<>>), Array(<<Number(1)>>) }

\* typeof(value)
TypeOf(value) ==
    CASE value.kind \in { "number", "NaN" } -> "number"
      [] value.kind = "string" -> "string"
      [] value.kind = "boolean" -> "boolean"
      [] OTHER -> "object"

\* String(value) of a number, a boolean or NaN
PrimitiveToString(value) ==
    CASE value.kind = "string" -> value.s
      [] value.kind = "number" -> ToString(value.n)
      [] value.kind = "boolean" -> IF value.b THEN "true" ELSE "false"
      [] value.kind = "NaN" -> "NaN"
      [] OTHER -> ""

\* String(value): the items of an array joined by commas
RECURSIVE JoinItems(_, _)
JoinItems(items, i) ==
    IF i > Len(items) THEN ""
    ELSE IF i = Len(items) THEN PrimitiveToString(items[i])
    ELSE PrimitiveToString(items[i]) \o "," \o JoinItems(items, i + 1)

ToStringValue(value) ==
    String(IF value.kind = "array" THEN JoinItems(value.items, 1)
           ELSE PrimitiveToString(value))

\* parseFloat(value): the number that the string of the value begins with,
\* or NaN
ParseFloat(value) ==
    LET string == ToStringValue(value).s
    IN CASE string = "0" -> Number(0)
         [] string = "1" -> Number(1)
         [] string \in { "12", "12abc" } -> Number(12)
         [] OTHER -> NaN

\* typecast(value)
Typecast(column, value) ==
    IF value.kind = "string" /\ value.s = ""
       /\ column.type \notin { "text", "string", "binary" }
    THEN NullValue
    ELSE IF value.kind \in { "null", "expression" } \/ TypeOf(value) = column.jsType
    THEN value
    ELSE CASE column.jsType = "string" -> ToStringValue(value)
           [] column.jsType = "number" ->
                  IF value.kind = "boolean" THEN Number(IF value.b THEN 1 ELSE 0)
                  ELSE ParseFloat(value)
           [] column.jsType = "boolean" ->
                  Bool(~(value = Number(0) \/ value = NaN \/ value = String("")))
           [] OTHER -> value

CastInit ==
    \E column \in Columns, value \in CastValues :
        cast = [column |-> column, value |-> value, results |-> <<>>]

\* No column in use.
CastIdle ==
    cast = [column |-> [type |-> "", unsigned |-> FALSE, jsType |-> ""],
          value |-> NullValue, results |-> <<>>]

\* column.typecast(value), and then column.typecast() of what it returned
typecast ==
    /\ Len(cast.results) < 2
    /\ cast' = [cast EXCEPT !.results =
                 Append(@, Typecast(cast.column,
                                    IF @ = <<>> THEN cast.value ELSE @[Len(@)]))]

\* C19: typecast is idempotent: for every column type and every value that is
\* neither null nor an Expression, typecast(typecast(v)) equals typecast(v).
C19_TypecastIdempotent ==
    Len(cast.results) = 2 => cast.results[2] = cast.results[1]
(***************************************************************************)
(* Jii.sql.BaseSchema.quoteTableName(name) with the quoteSimpleTableName   *)
(* of Jii.sql.mysql.Schema                                                 *)
(*                                                                         *)
(* A name is the sequence of its characters.                               *)
(***************************************************************************)
\* The characters of the names: a letter and the characters that
\* quoteTableName looks for.
NameChars == { "a", ".", "(", "{", Backquote }

\* The table names of at most MaxNameLen characters.
TableNameStrings == UNION { [1..k -> NameChars] : k \in 0..MaxNameLen }

\* name.indexOf(search) !== -1
Contains(name, search) ==
    \E i \in 1..(Len(name) - Len(search) + 1) :
        SubSeq(name, i, i + Len(search) - 1) = search

\* name.split('.'): the parts between the dots, from the i-th character on,
\* the part begun being current
RECURSIVE SplitFrom(_, _, _)
SplitFrom(name, i, current) ==
    IF i > Len(name) THEN <<current>>
    ELSE IF name[i] = "."
    THEN <<current>> \o SplitFrom(name, i + 1, <<>>)
    ELSE SplitFrom(name, i + 1, Append(current, name[i]))

Split(name) == SplitFrom(name, 1, <<>>)

\* parts.join('.')
RECURSIVE JoinParts(_, _)
JoinParts(parts, i) ==
    IF i > Len(parts) THEN <<>>
    ELSE IF i = Len(parts) THEN parts[i]
    ELSE parts[i] \o <<".">> \o JoinParts(parts, i + 1)

\* quoteSimpleTableName(name)
BrokenQuoteSimpleTableName(name) == <<Backquote>> \o name \o <<Backquote>>
QuoteSimpleTableName(name) ==
    IF Contains(name, <<Backquote>>) THEN name
    ELSE <<Backquote>> \o name \o <<Backquote>>

\* quoteTableName(name)
QuoteTableName(name) ==
    IF Contains(name, <<"(">>) \/ Contains(name, <<"{", "{">>) THEN name
    ELSE IF ~Contains(name, <<".">>) THEN QuoteSimpleTableName(name)
    ELSE LET parts == Split(name)
         IN JoinParts([i \in DOMAIN parts |-> QuoteSimpleTableName(parts[i])], 1)

QuoteInit ==
    \E name \in TableNameStrings : quoted = [name |-> name, results |-> <<>>]

\* No name in use.
QuoteIdle == quoted = [name |-> <<>>, results |-> <<>>]

\* schema.quoteTableName(name), and then schema.quoteTableName() of what it
\* returned
quoteTableName ==
    /\ Len(quoted.results) < 2
    /\ quoted' = [quoted EXCEPT !.results =
                     Append(@, QuoteTableName(IF @ = <<>> THEN quoted.name
                                              ELSE @[Len(@)]))]

\* C20: quoteTableName is idempotent: for every table name x, plain, dotted,
\* parenthesized or with template brackets,
\* quoteTableName(quoteTableName(x)) equals quoteTableName(x).
C20_QuoteTableNameIdempotent ==
    Len(quoted.results) = 2 => quoted.results[2] = quoted.results[1]

C20_Witness ==
    /\ Len(quoted.results) = 2
    /\ quoted.name = <<"a", ".", "a">>
    /\ quoted.results[1] =
           <<Backquote, "a", Backquote, ".", Backquote, "a", Backquote>>
    /\ quoted.results[2] = quoted.results[1]
(***************************************************************************)
(* Jii.sql.mysql.QueryBuilder: buildLimit, checkIntegrity, resetSequence   *)
(* and renameColumn                                                        *)
(***************************************************************************)
\* An argument that may be left out (or be null), and a number given for it.
Omitted == [set |-> FALSE, n |-> 0, b |-> FALSE]
Given(n) == [set |-> TRUE, n |-> n, b |-> n # 0]
GivenBool(b) == [set |-> TRUE, n |-> IF b THEN 1 ELSE 0, b |-> b]

\* limit and offset of a query: unset, or a number that is not negative
Limits == { Omitted } \cup { Given(n) : n \in 0..MaxLimit }

\* _hasLimit(limit) and _hasOffset(offset): the limit, the offset is set
HasLimit(limit) == limit.set
HasOffset(offset) == offset.set

\* buildLimit(limit, offset)
BrokenBuildLimit(limit, offset) ==
    IF HasLimit(limit)
    THEN "LIMIT " \o ToString(limit.n)
         \o (IF HasOffset(offset) THEN " OFFSET " \o ToString(offset.n) ELSE "")
    ELSE IF HasOffset(offset) THEN "OFFSET " \o ToString(offset.n)
    ELSE ""
BuildLimit(limit, offset) ==
    IF HasLimit(limit)
    THEN "LIMIT " \o ToString(limit.n)
         \o (IF HasOffset(offset) THEN " OFFSET " \o ToString(offset.n) ELSE "")
    ELSE IF HasOffset(offset)
    THEN "LIMIT " \o ToString(offset.n) \o ", 18446744073709551615"
    ELSE ""

\* check || true
CheckOrTrue(enable) == IF enable.set /\ enable.b THEN enable.b ELSE TRUE

\* checkIntegrity(check, schema, table)
CheckIntegrity(enable) ==
    "SET FOREIGN_KEY_CHECKS = " \o (IF CheckOrTrue(enable) THEN "1" ELSE "0")

\* getTableSchema(name): this._tables[name] || null
GetTableSchema(cache, name) ==
    LET raw == GetRawTableName(name)
    IN IF cache[raw].has THEN cache[raw].table ELSE NullTable

\* db.quoteTableName(name) of a name without dots, brackets and quotes
QuotePlainTableName(name) == Backquote \o name \o Backquote

\* A call of a method of the builder: what it threw in the caller's turn, the
\* promise it returned, the queries it has issued.
BuilderCall(method) ==
    [call |-> method, limit |-> Omitted, offset |-> Omitted, check |-> Omitted,
     value |-> Omitted, table |-> "", oldName |-> "", newName |-> "",
     thrown |-> "none", out |-> "none", sql |-> "", queries |-> <<>>]
Resolve(call, sql) == [call EXCEPT !.out = "resolved", !.sql = sql]
Reject(call, exception) == [call EXCEPT !.out = "rejected", !.thrown = exception]
ThrowNow(call, exception) == [call EXCEPT !.thrown = exception]
Query(call, sql) == [call EXCEPT !.out = "pending", !.queries = Append(@, sql)]

\* resetSequence(tableName, value), to the point where it returns or throws
BrokenResetSequence(cache, tableName, value) ==
    LET call == [BuilderCall("resetSequence") EXCEPT
                        !.table = tableName, !.value = value]
        table == GetTableSchema(cache, tableName)
        quotedName == QuotePlainTableName(tableName)
    IN IF table.isNull
       THEN Reject(Query(call, "SELECT MAX() FROM " \o quotedName),
                   "InvalidParamException")
       ELSE IF table.sequenceName = "null"
       THEN Reject(call, "InvalidParamException")
       ELSE Resolve(call, "ALTER TABLE " \o quotedName \o " AUTO_INCREMENT="
                              \o ToString(value.n))
ResetSequence(cache, tableName, value) ==
    LET call == [BuilderCall("resetSequence") EXCEPT
                        !.table = tableName, !.value = value]
        table == GetTableSchema(cache, tableName)
        quotedName == QuotePlainTableName(tableName)
    IN IF table.isNull THEN ThrowNow(call, "InvalidParamException")
       ELSE IF table.sequenceName = "null"
       THEN ThrowNow(call, "InvalidParamException")
       ELSE IF ~value.set \/ value.n = 0
       THEN Query(call, "SELECT MAX(" \o Backquote \o table.primaryKey[1]
                            \o Backquote \o ") FROM " \o quotedName)
       ELSE Resolve(call, "ALTER TABLE " \o quotedName \o " AUTO_INCREMENT="
                              \o ToString(value.n))

\* resetSequence: the handler of queryScalar().then(); null + 1 is 1
ResetSequenceDone(call, value) ==
    Resolve(call, "ALTER TABLE " \o QuotePlainTableName(call.table)
                      \o " AUTO_INCREMENT="
                      \o ToString((IF value.set THEN value.n ELSE 0) + 1))

\* A line of the text of SHOW CREATE TABLE: the definition of a column, with
\* the name in backquotes first, or another line.
ColumnLine(name, definition) ==
    [isColumn |-> TRUE, name |-> name, definition |-> definition]
OtherLine == [isColumn |-> FALSE, name |-> "", definition |-> ""]

\* row['Create Table'].split('\n')
CreateTableLines(table) ==
    CASE table = "customer" ->
            << OtherLine,
               ColumnLine("id", "int(11) NOT NULL AUTO_INCREMENT"),
               ColumnLine("name", "varchar(128) NOT NULL"),
               OtherLine, OtherLine >>
      [] table = "order_item" ->
            << OtherLine,
               ColumnLine("order_id", "int(11) NOT NULL"),
               ColumnLine("item_id", "int(11) NOT NULL"),
               ColumnLine("quantity", "int(11) NOT NULL"),
               OtherLine, OtherLine, OtherLine, OtherLine >>
      [] OTHER -> <<>>

\* /^\s*`(.*?)`\s+(.*?),?/g.exec(sqlLine): null, or the name between the
\* backquotes and what the second group takes, which is nothing, for the
\* group takes as little as it can and nothing has to follow it
Matches(line) ==
    IF line.isColumn THEN <<line.name, "">> ELSE <<>>

\* renameColumn: the loop over the lines, options being what is found so far
RECURSIVE OptionsFrom(_, _, _, _)
OptionsFrom(lines, i, oldName, options) ==
    IF i > Len(lines) THEN options
    ELSE LET matches == Matches(lines[i])
             found == options = "" /\ matches # <<>> /\ matches[1] = oldName
         IN OptionsFrom(lines, i + 1, oldName,
                        IF found THEN matches[1] ELSE options)

\* renameColumn(table, oldName, newName), to the point where it returns
RenameColumn(table, oldName, newName) ==
    Query([BuilderCall("renameColumn") EXCEPT
               !.table = table, !.oldName = oldName, !.newName = newName],
          "SHOW CREATE TABLE " \o QuotePlainTableName(table))

\* renameColumn: the handler of queryOne().then() for a row
RenameColumnDone(call, lines) ==
    LET options == OptionsFrom(lines, 1, call.oldName, "")
    IN Resolve(call, "ALTER TABLE " \o QuotePlainTableName(call.table) \o " CHANGE "
                         \o QuoteColumnName(call.oldName) \o " "
                         \o QuoteColumnName(call.newName)
                         \o (IF options # "" THEN " " \o options ELSE ""))

\* The columns that renameColumn is asked to rename and their new names.
OldNames == { "id", "name", "quantity" }
NewNames == { "title", "amount" }

\* The tables that the schema has loaded: for every name none, null, or the
\* table of that name.
LoadedTables ==
    { cache \in [CacheKeys -> { NoEntry, Entry(NullTable) }
                              \cup { Entry(Introspected(name)) : name \in TableNames }] :
        /\ \A name \in LoadNames :
               cache[name].has /\ ~cache[name].table.isNull
                   => cache[name].table.name = name
        /\ \A name \in TemplateNames : cache[name] = NoEntry }

MysqlCacheInit ==
    /\ tablesCache \in LoadedTables
    /\ namesCache = EmptyTableNames
    /\ ops = <<>>

MysqlInit == qb = BuilderCall("none")

\* No builder in use.
MysqlIdle == qb = BuilderCall("none")

\* queryBuilder.buildLimit(limit, offset)
buildLimit(limit, offset) ==
    /\ qb.call = "none"
    /\ qb' = Resolve([BuilderCall("buildLimit") EXCEPT
                         !.limit = limit, !.offset = offset],
                    BuildLimit(limit, offset))
    /\ UNCHANGED cacheVars

\* queryBuilder.checkIntegrity(check), the argument being enable here
checkIntegrity(enable) ==
    /\ qb.call = "none"
    /\ qb' = Resolve([BuilderCall("checkIntegrity") EXCEPT !.check = enable],
                    CheckIntegrity(enable))
    /\ UNCHANGED cacheVars

\* queryBuilder.resetSequence(tableName, value)
resetSequence(tableName, value) ==
    /\ qb.call = "none"
    /\ qb' = ResetSequence(tablesCache, tableName, value)
    /\ UNCHANGED cacheVars

\* The query of resetSequence completes with the largest key, or with null for
\* a table without rows.
resetSequenceDone(value) ==
    /\ qb.call = "resetSequence" /\ qb.out = "pending"
    /\ qb' = ResetSequenceDone(qb, value)
    /\ UNCHANGED cacheVars

\* queryBuilder.renameColumn(table, oldName, newName)
renameColumn(table, oldName, newName) ==
    /\ qb.call = "none"
    /\ qb' = RenameColumn(table, oldName, newName)
    /\ UNCHANGED cacheVars

\* SHOW CREATE TABLE completes with the row of the table; for a table that
\* does not exist the driver fails, queryOne() gives false and the handler
\* fails on it.
renameColumnDone ==
    /\ qb.call = "renameColumn" /\ qb.out = "pending"
    /\ qb' = IF qb.table \in TableNames
             THEN RenameColumnDone(qb, CreateTableLines(qb.table))
             ELSE Reject(qb, "TypeError")
    /\ UNCHANGED cacheVars

\* C21: buildLimit gives a LIMIT clause whenever an offset is set: with a limit
\* that limit and the offset, without a limit the offset and
\* 18446744073709551615 as the limit; with neither set it gives nothing.
C21_LimitWheneverOffset ==
    qb.call = "buildLimit" =>
        /\ qb.out = "resolved"
        /\ qb.limit.set /\ qb.offset.set =>
               qb.sql = "LIMIT " \o ToString(qb.limit.n)
                            \o " OFFSET " \o ToString(qb.offset.n)
        /\ ~qb.limit.set /\ qb.offset.set =>
               qb.sql = "LIMIT " \o ToString(qb.offset.n)
                            \o ", 18446744073709551615"
        /\ ~qb.limit.set /\ ~qb.offset.set => qb.sql = ""
C21_Witness ==
    /\ qb.call = "buildLimit" /\ ~qb.limit.set /\ qb.offset = Given(MaxLimit)
    /\ qb.sql = "LIMIT " \o ToString(MaxLimit) \o ", 18446744073709551615"

\* The schema does not know the table or has found no sequence for it.
NoSequenceFor(tableName) ==
    \/ ~tablesCache[tableName].has
    \/ tablesCache[tableName].table.isNull
    \/ tablesCache[tableName].table.sequenceName = "null"

\* C22: resetSequence for a table that the schema does not know or that has no
\* sequence throws in the turn of the caller: it returns no promise and has
\* issued no query.
C22_ResetSequenceThrowsEarly ==
    (qb.call = "resetSequence" /\ NoSequenceFor(qb.table)) =>
        /\ qb.thrown = "InvalidParamException"
        /\ qb.out = "none"
        /\ qb.queries = <<>>
C22_Witness ==
    /\ qb.call = "resetSequence" /\ qb.table = "order_item"
    /\ tablesCache["order_item"].has /\ ~tablesCache["order_item"].table.isNull
    /\ qb.thrown = "InvalidParamException" /\ qb.queries = <<>>

\* The type and the options of a column as the text of CREATE TABLE has them.
DefinitionsOf(table, name) ==
    { line.definition : line \in { CreateTableLines(table)[i] :
                                       i \in 1..Len(CreateTableLines(table)) }
                                 \cap { ColumnLine(name, definition) :
                                            definition \in { CreateTableLines(table)[i].definition :
                                                                 i \in 1..Len(CreateTableLines(table)) } } }

C25_CheckIntegrityFollowsCheck ==
    qb.call = "checkIntegrity" =>
        /\ qb.out = "resolved"
        /\ qb.sql = "SET FOREIGN_KEY_CHECKS = "
                        \o (IF qb.check.set /\ ~qb.check.b THEN "0" ELSE "1")
(***************************************************************************)
(* Jii.sql.ColumnSchemaBuilder                                             *)
(***************************************************************************)
\* new ColumnSchemaBuilder(type, length): length is null (no items here), a
\* number (one item) or an array
NewColumnSchemaBuilder(type, length) ==
    [type |-> type, length |-> length, isNotNull |-> FALSE, isUnique |-> FALSE,
     check |-> "null", default |-> NullValue, calls |-> <<>>, out |-> "none"]

BuilderTypes == { "integer", "decimal" }
BuilderLengths == { <<>>, <<10>>, <<10, 2>> }
BuilderChecks == { "x > 0", "x < 9" }
BuilderDefaults == { Number(0), Bool(TRUE), String("a") }

\* A call of a method of the builder with its argument.
Called(method, value, check) == [method |-> method, value |-> value, check |-> check]

\* [].concat(this._length).join(',')
RECURSIVE LengthItems(_, _)
LengthItems(length, i) ==
    IF i > Len(length) THEN ""
    ELSE (IF i > 1 THEN "," ELSE "") \o ToString(length[i]) \o LengthItems(length, i + 1)

\* _buildLengthString()
BuildLengthString(builder) ==
    IF builder.length = <<>> THEN "" ELSE "(" \o LengthItems(builder.length, 1) \o ")"

\* _buildNotNullString()
BuildNotNullString(builder) == IF builder.isNotNull THEN " NOT NULL" ELSE ""

\* _buildUniqueString()
BuildUniqueString(builder) == IF builder.isUnique THEN " UNIQUE" ELSE ""

\* The default value after DEFAULT.
DefaultText(value) ==
    CASE TypeOf(value) = "number" -> PrimitiveToString(value)
      [] TypeOf(value) = "boolean" -> IF value.b THEN "TRUE" ELSE "FALSE"
      [] TypeOf(value) = "string" -> "\"" \o value.s \o "\""
      [] OTHER -> ""

\* _buildDefaultString()
BuildDefaultString(builder) ==
    IF builder.default = NullValue THEN ""
    ELSE " DEFAULT " \o DefaultText(builder.default)

\* _buildCheckString()
BuildCheckString(builder) ==
    IF builder.check # "null" THEN " CHECK (" \o builder.check \o ")" ELSE ""

\* toString()
BrokenBuilderToString(builder) ==
    builder.type \o BuildLengthString(builder) \o BuildNotNullString(builder)
        \o BuildUniqueString(builder) \o BuildCheckString(builder)
        \o BuildDefaultString(builder)
BuilderToString(builder) ==
    builder.type \o BuildLengthString(builder) \o BuildNotNullString(builder)
        \o BuildUniqueString(builder) \o BuildDefaultString(builder)
        \o BuildCheckString(builder)

ColumnInit ==
    \E type \in BuilderTypes, length \in BuilderLengths :
        csb = NewColumnSchemaBuilder(type, length)

\* No builder in use.
ColumnIdle == csb = NewColumnSchemaBuilder("", <<>>)

CanCall == csb.out = "none" /\ Len(csb.calls) < MaxBuilderCalls

\* builder.notNull()
notNull ==
    /\ CanCall
    /\ csb' = [csb EXCEPT !.isNotNull = TRUE,
                          !.calls = Append(@, Called("notNull", NullValue, "null"))]

\* builder.unique()
unique ==
    /\ CanCall
    /\ csb' = [csb EXCEPT !.isUnique = TRUE,
                          !.calls = Append(@, Called("unique", NullValue, "null"))]

\* builder.check(check)
check(sql) ==
    /\ CanCall
    /\ csb' = [csb EXCEPT !.check = sql,
                          !.calls = Append(@, Called("check", NullValue, sql))]

\* builder.defaultValue(value)
defaultValue(value) ==
    /\ CanCall
    /\ csb' = [csb EXCEPT !.default = value,
                          !.calls = Append(@, Called("defaultValue", value, "null"))]

\* builder.toString()
toString ==
    /\ csb.out = "none"
    /\ csb' = [csb EXCEPT !.out = BuilderToString(csb)]

\* The calls of a method in the order they were made.
CallsOf(method) == SelectSeq(csb.calls, LAMBDA call : call.method = method)
LastOf(method) == CallsOf(method)[Len(CallsOf(method))]

\* C24: the string of the builder has the clauses in the order type and length,
\* NOT NULL, UNIQUE, DEFAULT, CHECK, each one if its method was called and with
\* the argument of the last call, whatever the order of the calls.
C24_ClausesInFixedOrder ==
    csb.out # "none" =>
        csb.out = csb.type
            \o (IF csb.length = <<>> THEN ""
                ELSE "(" \o LengthItems(csb.length, 1) \o ")")
            \o (IF CallsOf("notNull") # <<>> THEN " NOT NULL" ELSE "")
            \o (IF CallsOf("unique") # <<>> THEN " UNIQUE" ELSE "")
            \o (IF CallsOf("defaultValue") # <<>>
                THEN " DEFAULT " \o DefaultText(LastOf("defaultValue").value) ELSE "")
            \o (IF CallsOf("check") # <<>>
                THEN " CHECK (" \o LastOf("check").check \o ")" ELSE "")
C24_Witness ==
    /\ Len(csb.calls) = 4
    /\ csb.calls[1].method = "check" /\ csb.calls[2].method = "defaultValue"
    /\ csb.calls[3].method = "unique" /\ csb.calls[4].method = "notNull"
    /\ csb.out = "decimal(10,2) NOT NULL UNIQUE DEFAULT 0 CHECK (x > 0)"
(***************************************************************************)
(* Two prepare() of one relation query under way together                  *)
(***************************************************************************)
\* The relation queries on which two calls are started together: a relation
\* without via, and one through a junction table or a via relation.
ConcurrentDefs ==
    { RelationDef(HasManyLink, multiple, "none", HasManyLink, TRUE, "none", target, <<>>) :
        target \in Tables(1, 1, LinkKeys(HasManyLink)), multiple \in BOOLEAN }
    \cup { RelationDef(ThroughLink, TRUE, via[1], JunctionLink, via[2], "none",
                       <<Row(1, Null, Null)>>, junction) :
             junction \in Tables(1, 1, <<"a", "b">>), via \in ViaKinds }

ConcurrentInit ==
    /\ \E def \in ConcurrentDefs, where \in { <<>>, <<GetterCondition>> } :
          \E primaryModels \in Tables(1, 1, <<"a", "b">>) :
              lq = LazyQuery(def, primaryModels[1], where)
    /\ calls = <<>>
    /\ lazyLog = <<>>

\* The call has left prepare(): its Query is built.
Prepared(c) == calls[c].pc \in { "prepared", "done", "rejected" }

\* C26: with a second prepare() started on the relation query before the first
\* has completed, each returned Query carries the key filter once on top of
\* the where the query had before the calls, and the where of the relation
\* query ends as it was before the calls.
C26_ConcurrentPrepare ==
    /\ \A c \in DOMAIN calls :
           Prepared(c) =>
               calls[c].result =
                   FilterByModels(calls[1].before, lq.def.link, FilterModelsOf(c))
    /\ (calls # <<>> /\ \A c \in DOMAIN calls : Prepared(c)) =>
           lq.where = calls[1].before
(***************************************************************************)
(* Jii.sql.controllers.BaseMigrateController: the actions up and redo      *)
(*                                                                         *)
(* A migration class is known by the number n of its name, the time stamp  *)
(* in m<yymmdd_hhmmss>_<name>: names sort as their numbers do.  The        *)
(* history is the list of the applied versions, the newest first, without  *)
(* the base migration.                                                     *)
(***************************************************************************)
Versions == 1..MaxMigrations

Event(op, version) == [op |-> op, version |-> version]

\* The controller with a history, no action called.
NewMigrate(history, files) ==
    [action |-> "none", pc |-> "idle", history |-> history, before |-> history,
     files |-> files, limit |-> Omitted, total |-> 0, migrations |-> <<>>,
     i |-> 0, log |-> <<>>, exit |-> "none"]

\* The lists of the elements of a set in every order: fs.readdirSync
Orders(set) ==
    { order \in [1..Cardinality(set) -> set] :
        \A i, j \in 1..Cardinality(set) : i # j => order[i] # order[j] }

\* migrations.reverse()
Reverse(list) == [i \in 1..Len(list) |-> list[Len(list) + 1 - i]]

\* _getMigrationHistory(limit): the newest limit versions, all for null
GetMigrationHistory(history, limit) ==
    IF ~limit.set \/ limit.n >= Len(history) THEN history
    ELSE SubSeq(history, 1, limit.n)

\* _getNewMigrations(): the classes in the files that are not in the history,
\* sorted
BrokenGetNewMigrations(history, files) ==
    SelectSeq(files, LAMBDA file : file \notin SeqToSet(history))
GetNewMigrations(history, files) ==
    SortSeq(SelectSeq(files, LAMBDA file : file \notin SeqToSet(history)),
            LAMBDA a, b : a < b)

\* migrations.splice(0, limit) for limit > 0
Splice(migrations, limit) ==
    IF limit.set /\ limit.n > 0 /\ limit.n < Len(migrations)
    THEN SubSeq(migrations, 1, limit.n) ELSE migrations

Exit(m, code) == [m EXCEPT !.pc = "done", !.exit = code]

\* _actionUpInternal: the handler of _getNewMigrations().then()
ActionUpInternal(m, migrations) ==
    IF Len(migrations) = 0 THEN Exit(m, "EXIT_CODE_NORMAL")
    ELSE [m EXCEPT !.total = Len(migrations),
                   !.migrations = Splice(migrations, m.limit),
                   !.pc = "confirm"]

\* actionRedo: the handler of _getMigrationHistory(limit).then()
ActionRedoInternal(m, migrations) ==
    IF migrations = <<>> THEN Exit(m, "EXIT_CODE_NORMAL")
    ELSE [m EXCEPT !.total = Len(migrations), !.migrations = migrations,
                   !.pc = "confirm"]

\* _migrateUp(className), to the call of migration.up()
MigrateUp(m, className) ==
    [m EXCEPT !.pc = "up", !.log = Append(@, Event("up", className))]

\* _migrateDown(className), to the call of migration.down()
MigrateDown(m, className) ==
    [m EXCEPT !.pc = "down", !.log = Append(@, Event("down", className))]

\* _actionUpInternal: migrateQueueFn(migrations, i)
MigrateQueueFn(m, i) ==
    IF i <= Len(m.migrations) THEN MigrateUp([m EXCEPT !.i = i], m.migrations[i])
    ELSE Exit(m, "undefined")

\* actionRedo: the handler after the queue of reverts, a function that is not
\* bound to the controller: migrations.reverse(), then migrateUpQueueFn is
\* bound to undefined and fails on this._migrateUp or this.stdout
RedoUp(m) ==
    Exit([m EXCEPT !.migrations = Reverse(@)], "TypeError")

\* actionRedo: migrateDownQueueFn(migrations, i); the queue at its end
\* resolves, and the handler after it runs
MigrateDownQueueFn(m, i) ==
    IF i <= Len(m.migrations) THEN MigrateDown([m EXCEPT !.i = i], m.migrations[i])
    ELSE RedoUp(m)

\* The histories: the applied versions in the order of their numbers, the
\* newest first.
Histories ==
    { Reverse(SortSeq(order, LAMBDA a, b : a < b)) :
        order \in UNION { Orders(applied) : applied \in SUBSET Versions } }

MigrateInit ==
    \E history \in Histories, files \in Orders(Versions) :
        mig = NewMigrate(history, files)

\* No migrate command.
MigrateIdle == mig = NewMigrate(<<>>, <<>>)

\* migrate/up [limit]: _getNewMigrations() asks for the history
actionUp(limit) ==
    /\ mig.pc = "idle"
    /\ mig' = [mig EXCEPT !.action = "up", !.limit = limit, !.pc = "history"]

\* migrate/redo [limit]: all or a number, which must be 1 at least
actionRedo(limit) ==
    /\ mig.pc = "idle"
    /\ mig' = IF limit.set /\ limit.n < 1
              THEN Exit([mig EXCEPT !.action = "redo", !.limit = limit], "Exception")
              ELSE [mig EXCEPT !.action = "redo", !.limit = limit, !.pc = "history"]

\* The history arrives.
getMigrationHistoryDone ==
    /\ mig.pc = "history"
    /\ mig' = IF mig.action = "up"
              THEN ActionUpInternal(mig, GetNewMigrations(mig.history, mig.files))
              ELSE ActionRedoInternal(mig, GetMigrationHistory(mig.history, mig.limit))

\* The user answers the question.
confirmDone(bool) ==
    /\ mig.pc = "confirm"
    /\ mig' = IF ~bool THEN Exit(mig, "EXIT_CODE_ERROR")
              ELSE IF mig.action = "up" THEN MigrateQueueFn(mig, 1)
              ELSE MigrateDownQueueFn(mig, 1)

\* migration.up() has returned: _addMigrationHistory unless it gave false
upDone(isSuccess) ==
    /\ mig.pc = "up"
    /\ mig' = IF isSuccess # "false" THEN [mig EXCEPT !.pc = "add"]
              ELSE Exit([mig EXCEPT !.log = Append(@, Event("failed",
                                                          mig.migrations[mig.i]))],
                        "EXIT_CODE_ERROR")

\* _addMigrationHistory is done: _migrateUp gives true, the next of the queue
addMigrationHistoryDone ==
    /\ mig.pc = "add"
    /\ LET className == mig.migrations[mig.i]
       IN mig' = MigrateQueueFn(
                     [mig EXCEPT !.history = <<className>> \o @,
                                 !.log = Append(@, Event("add", className))],
                     mig.i + 1)

\* migration.down() has returned: _removeMigrationHistory unless it gave
\* false; on false the queue resolves with the error code, and the handler
\* after the queue runs
downDone(isSuccess) ==
    /\ mig.pc = "down"
    /\ mig' = IF isSuccess # "false" THEN [mig EXCEPT !.pc = "remove"]
              ELSE RedoUp([mig EXCEPT !.log = Append(@, Event("failed",
                                                            mig.migrations[mig.i]))])

\* _removeMigrationHistory is done: the next of the queue
removeMigrationHistoryDone ==
    /\ mig.pc = "remove"
    /\ LET className == mig.migrations[mig.i]
       IN mig' = MigrateDownQueueFn(
                     [mig EXCEPT !.history = SelectSeq(@, LAMBDA v : v # className),
                                 !.log = Append(@, Event("remove", className))],
                     mig.i + 1)

\* What migration.up() and migration.down() return.
Returns == { "true", "false", "undefined" }

\* The versions not applied before the action, in the order of their names.
PendingMigrations == SortSeq(SelectSeq([i \in 1..MaxMigrations |-> i],
                             LAMBDA v : v \notin SeqToSet(mig.before)),
                   LAMBDA a, b : a < b)
EventsOf(op) == SelectSeq(mig.log, LAMBDA e : e.op = op)

\* C27: up starts the pending migrations in the order of their names, each
\* after the history entry of the one before it was recorded; when up() of one
\* gives false no entry is recorded for it, none is started after it and the
\* action ends with the error code.
C27_UpOneAtATime ==
    mig.action = "up" =>
        /\ \A k \in 1..Len(EventsOf("up")) : EventsOf("up")[k].version = PendingMigrations[k]
        /\ \A k \in 1..Len(mig.log) :
               (mig.log[k].op = "up" /\ k > 1) =>
                   /\ mig.log[k - 1].op = "add"
                   /\ \E j \in 1..Len(EventsOf("up")) :
                          /\ j > 1
                          /\ EventsOf("up")[j] = mig.log[k]
                          /\ EventsOf("up")[j - 1].version = mig.log[k - 1].version
        /\ \A k \in 1..Len(mig.log) :
               mig.log[k].op = "failed" =>
                   /\ k = Len(mig.log)
                   /\ mig.log[k].version \notin SeqToSet(mig.history)
                   /\ mig.pc = "done" /\ mig.exit = "EXIT_CODE_ERROR"
C27_Witness ==
    /\ mig.action = "up" /\ mig.pc = "done" /\ mig.exit = "EXIT_CODE_ERROR"
    /\ mig.files = <<3, 2, 1>> /\ mig.before = <<>>
    /\ mig.log = <<Event("up", 1), Event("add", 1), Event("up", 2), Event("failed", 2)>>
    /\ mig.history = <<1>>

\* C28: redo reverts all the selected migrations and then applies them in the
\* reverse order; when every down() and up() succeeds every selected
\* migration is applied at the end, and when a revert fails none is applied
\* again.
C28_RedoRevertsThenApplies ==
    (mig.action = "redo" /\ mig.pc = "done" /\ mig.log # <<>>) =>
        /\ EventsOf("failed") = <<>> =>
               /\ SeqToSet(mig.migrations) \subseteq SeqToSet(mig.history)
               /\ [k \in 1..Len(EventsOf("up")) |-> EventsOf("up")[k].version]
                      = Reverse([k \in 1..Len(EventsOf("down")) |->
                                    EventsOf("down")[k].version])
        /\ EventsOf("failed") # <<>> => EventsOf("up") = <<>>
(***************************************************************************)
(* Jii.sql.BaseSchema: getTableSchema after loadTableSchema, for plain     *)
(* names and for names in {{ }}                                            *)
(***************************************************************************)
\* The names the program's user asks for: a table and its two names in {{ }}.
SpelledNames == { "customer" } \cup TemplateNames

\* The database: the table exists or not, and no one changes it.
TemplateDbInit ==
    /\ dbTables \in SUBSET { "customer" }
    /\ ddlCount = 0
    /\ loads = <<>>

\* getTableSchema(name), called by the program's user: the call and what it
\* returned
getTableSchema(name) ==
    /\ Cardinality(UserCalls) < MaxSchemaCalls
    /\ ops' = Append(ops, Op("get", name, FALSE, 0, 0,
                             tablesCache[GetRawTableName(name)].has, "returned",
                             GetTableSchema(tablesCache, name), <<>>, <<>>))
    /\ UNCHANGED <<tablesCache, namesCache, schemaVars>>

\* The loadTableSchema(name) calls that have resolved with a table before
\* the call c.
LoadedBefore(c, name) ==
    { l \in 1..(c - 1) :
        /\ ops[l].kind = "table" /\ ops[l].arg = name
        /\ ops[l].out = "resolved" /\ ~ops[l].table.isNull }

CompositeQueries ==
    { k \in DOMAIN queryLog :
        /\ queryLog[k].table = "target"
        /\ scn.rels[queryLog[k].rel].via = "none"
        /\ scn.rels[queryLog[k].rel].link.isObject
        /\ Len(scn.rels[queryLog[k].rel].link.pairs) > 1 }

\* C30: for a link of several columns the filter has for each primary model
\* the tuple of the model's values of the columns link[c], one for every child
\* column c, and so selects for the model the rows that _buildBuckets attaches
\* to it.
C30_CompositeFilterByParentKey ==
    \A k \in CompositeQueries :
        LET def == scn.rels[queryLog[k].rel]
            inFilter == queryLog[k].where[Len(queryLog[k].where)]
        IN /\ inFilter.cols = LinkKeys(def.link)
           /\ inFilter.vals = [i \in DOMAIN scn.primaryModels |->
                                GetModelKey(scn.primaryModels[i], LinkValues(def.link))]
           /\ \A i \in DOMAIN scn.primaryModels :
                  QueryAll(def.target, <<InCondition(inFilter.cols, <<inFilter.vals[i]>>)>>)
                      = RowsLinkedTo(def.target, LinkKeys(def.link),
                                     scn.primaryModels[i], LinkValues(def.link))
(***************************************************************************)
(* Specifications: each runs the operations of one part of the program and *)
(* leaves the state of the other parts alone.                              *)
(***************************************************************************)
JoinFrame ==
    UNCHANGED <<connVars, schemaVars, eagerVars, lazyVars, popVars, cacheVars,
                fixVars, condVars, castVars, quoteVars, mysqlVars, columnVars,
                migrateVars>>
JoinNext ==
    \/ \E with \in WithLists, type \in JoinTypes :
          \E eager \in EagerChoices(with) : joinWith(with, eager, type) /\ JoinFrame
    \/ join("LEFT JOIN", "category", "{{item}}.[[category_id]] = {{category}}.[[id]]")
          /\ JoinFrame
    \/ prepare /\ JoinFrame
JoinStart ==
    JoinInit /\ ConnInit /\ SchemaIdle /\ EagerIdle /\ LazyIdle /\
    PopulateIdle /\ CacheIdle /\ FixIdle /\ CondIdle /\ CastIdle /\
    QuoteIdle /\ MysqlIdle /\ ColumnIdle /\ MigrateIdle
JoinSpec == JoinStart /\ [][JoinNext]_vars

ConnFrame ==
    UNCHANGED <<joinVars, schemaVars, eagerVars, lazyVars, popVars, cacheVars,
                fixVars, condVars, castVars, quoteVars, mysqlVars, columnVars,
                migrateVars>>
ConnNext ==
    \/ \E method \in ExecMethods : exec(method) /\ ConnFrame
    \/ \E i \in DOMAIN execCalls : execCallbackError(i) /\ ConnFrame
    \/ \E i \in DOMAIN execCalls, packet \in DriverPackets :
          execCallbackRows(i, packet) /\ ConnFrame
ConnStart ==
    JoinInit /\ ConnInit /\ SchemaIdle /\ EagerIdle /\ LazyIdle /\
    PopulateIdle /\ CacheIdle /\ FixIdle /\ CondIdle /\ CastIdle /\
    QuoteIdle /\ MysqlIdle /\ ColumnIdle /\ MigrateIdle
ConnSpec == ConnStart /\ [][ConnNext]_vars

SchemaFrame ==
    UNCHANGED <<joinVars, connVars, eagerVars, lazyVars, popVars, cacheVars,
                fixVars, condVars, castVars, quoteVars, mysqlVars, columnVars,
                migrateVars>>
SchemaNext ==
    \/ \E name \in LoadNames : loadTableSchemaStart(name) /\ SchemaFrame
    \/ \E i \in DOMAIN loads : findColumnsDone(i) /\ SchemaFrame
    \/ \E i \in DOMAIN loads : findConstraintsDone(i) /\ SchemaFrame
    \/ \E name \in TableNames : dropTable(name) /\ SchemaFrame
    \/ \E name \in TableNames : createTable(name) /\ SchemaFrame
SchemaStart ==
    JoinInit /\ ConnInit /\ SchemaInit /\ EagerIdle /\ LazyIdle /\
    PopulateIdle /\ CacheIdle /\ FixIdle /\ CondIdle /\ CastIdle /\
    QuoteIdle /\ MysqlIdle /\ ColumnIdle /\ MigrateIdle
SchemaSpec == SchemaStart /\ [][SchemaNext]_vars

EagerFrame ==
    UNCHANGED <<joinVars, connVars, schemaVars, lazyVars, popVars, cacheVars,
                fixVars, condVars, castVars, quoteVars, mysqlVars, columnVars,
                migrateVars>>
EagerNext ==
    \/ findWith /\ EagerFrame
    \/ \E r \in DOMAIN rel : resolveVia(r) /\ EagerFrame
    \/ \E r \in DOMAIN rel : viaComplete(r) /\ EagerFrame
    \/ \E r \in DOMAIN rel : targetComplete(r) /\ EagerFrame
EagerStart ==
    JoinInit /\ ConnInit /\ SchemaIdle /\ EagerInit /\ LazyIdle /\
    PopulateIdle /\ CacheIdle /\ FixIdle /\ CondIdle /\ CastIdle /\
    QuoteIdle /\ MysqlIdle /\ ColumnIdle /\ MigrateIdle
EagerSpec == EagerStart /\ [][EagerNext]_vars

\* One findFor() at a time on the relation query.
LazyFrame ==
    UNCHANGED <<joinVars, connVars, schemaVars, eagerVars, popVars, cacheVars,
                fixVars, condVars, castVars, quoteVars, mysqlVars, columnVars,
                migrateVars>>
LazyNext ==
    \/ findFor /\ NoCallInFlight /\ LazyFrame
    \/ \E c \in DOMAIN calls : prepareClone(c) /\ LazyFrame
    \/ \E c \in DOMAIN calls : prepareFilter(c) /\ LazyFrame
    \/ \E c \in DOMAIN calls : prepareViaDone(c) /\ LazyFrame
    \/ \E c \in DOMAIN calls : prepareFinish(c) /\ LazyFrame
    \/ \E c \in DOMAIN calls : queryDone(c) /\ LazyFrame
    \/ \E c \in DOMAIN calls : queryFails(c) /\ LazyFrame
LazyStart ==
    JoinInit /\ ConnInit /\ SchemaIdle /\ EagerIdle /\ LazyInit /\
    PopulateIdle /\ CacheIdle /\ FixIdle /\ CondIdle /\ CastIdle /\
    QuoteIdle /\ MysqlIdle /\ ColumnIdle /\ MigrateIdle
LazySpec == LazyStart /\ [][LazyNext]_vars

PopulateFrame ==
    UNCHANGED <<joinVars, connVars, schemaVars, eagerVars, lazyVars,
                cacheVars, fixVars, condVars, castVars, quoteVars, mysqlVars,
                columnVars, migrateVars>>
PopulateNext ==
    \/ populate /\ PopulateFrame
    \/ populateResolved /\ PopulateFrame
PopulateStart ==
    JoinInit /\ ConnInit /\ SchemaIdle /\ EagerIdle /\ LazyIdle /\
    PopulateInit /\ CacheIdle /\ FixIdle /\ CondIdle /\ CastIdle /\
    QuoteIdle /\ MysqlIdle /\ ColumnIdle /\ MigrateIdle
PopulateSpec == PopulateStart /\ [][PopulateNext]_vars

CacheFrame ==
    UNCHANGED <<joinVars, connVars, eagerVars, lazyVars, popVars, fixVars,
                condVars, castVars, quoteVars, mysqlVars, columnVars,
                migrateVars>>
CacheNext ==
    \/ \E name \in CacheNames, flag \in BOOLEAN :
          loadTableSchema(name, flag) /\ CacheFrame
    \/ \E schema \in SchemaKeys, flag \in BOOLEAN :
          loadTableNames(schema, flag) /\ CacheFrame
    \/ \E flag \in BOOLEAN : loadTableSchemas(flag) /\ CacheFrame
    \/ refresh /\ CacheFrame
    \/ \E c \in DOMAIN ops : showTablesDone(c) /\ CacheFrame
    \/ \E i \in DOMAIN loads : showColumnsDone(i) /\ CacheFrame
    \/ \E i \in DOMAIN loads : showCreateTableDone(i) /\ CacheFrame
    \/ \E name \in CacheTables : ddl(name) /\ CacheFrame
CacheStart ==
    JoinInit /\ ConnInit /\ CacheDbInit /\ EagerIdle /\ LazyIdle /\
    PopulateIdle /\ CacheInit /\ FixIdle /\ CondIdle /\ CastIdle /\
    QuoteIdle /\ MysqlIdle /\ ColumnIdle /\ MigrateIdle
CacheSpec == CacheStart /\ [][CacheNext]_vars

\* loadTableSchemas over a database of several tables.
ListFrame ==
    UNCHANGED <<joinVars, connVars, eagerVars, lazyVars, popVars, fixVars,
                condVars, castVars, quoteVars, mysqlVars, columnVars,
                migrateVars>>
ListNext ==
    \/ \E flag \in BOOLEAN : loadTableSchemas(flag) /\ ListFrame
    \/ \E c \in DOMAIN ops : showTablesDone(c) /\ ListFrame
    \/ \E i \in DOMAIN loads : showColumnsDone(i) /\ ListFrame
    \/ \E i \in DOMAIN loads : showCreateTableDone(i) /\ ListFrame
    \/ \E name \in TableNames : ddl(name) /\ ListFrame
ListStart ==
    JoinInit /\ ConnInit /\ SchemaInit /\ EagerIdle /\ LazyIdle /\
    PopulateIdle /\ CacheInit /\ FixIdle /\ CondIdle /\ CastIdle /\
    QuoteIdle /\ MysqlIdle /\ ColumnIdle /\ MigrateIdle
ListSpec == ListStart /\ [][ListNext]_vars

FixFrame ==
    UNCHANGED <<joinVars, connVars, schemaVars, eagerVars, lazyVars, popVars,
                cacheVars, condVars, castVars, quoteVars, mysqlVars,
                columnVars, migrateVars>>
FixNext ==
    \/ \E keys \in KeyArguments : fixPrimaryKey(keys) /\ FixFrame
FixStart ==
    JoinInit /\ ConnInit /\ SchemaIdle /\ EagerIdle /\ LazyIdle /\
    PopulateIdle /\ CacheIdle /\ FixInit /\ CondIdle /\ CastIdle /\
    QuoteIdle /\ MysqlIdle /\ ColumnIdle /\ MigrateIdle
FixSpec == FixStart /\ [][FixNext]_vars

CompileFrame ==
    UNCHANGED <<joinVars, connVars, schemaVars, eagerVars, lazyVars, popVars,
                cacheVars, fixVars, castVars, quoteVars, mysqlVars,
                columnVars, migrateVars>>
CompileNext ==
    \/ buildCondition /\ CompileFrame
    \/ buildWhere /\ CompileFrame
CompileStart ==
    JoinInit /\ ConnInit /\ SchemaIdle /\ EagerIdle /\ LazyIdle /\
    PopulateIdle /\ CacheIdle /\ FixIdle /\ CompileInit /\ CastIdle /\
    QuoteIdle /\ MysqlIdle /\ ColumnIdle /\ MigrateIdle
CompileSpec == CompileStart /\ [][CompileNext]_vars

FilterFrame ==
    UNCHANGED <<joinVars, connVars, schemaVars, eagerVars, lazyVars, popVars,
                cacheVars, fixVars, castVars, quoteVars, mysqlVars,
                columnVars, migrateVars>>
FilterNext ==
    \/ filter /\ FilterFrame
FilterStart ==
    JoinInit /\ ConnInit /\ SchemaIdle /\ EagerIdle /\ LazyIdle /\
    PopulateIdle /\ CacheIdle /\ FixIdle /\ FilterInit /\ CastIdle /\
    QuoteIdle /\ MysqlIdle /\ ColumnIdle /\ MigrateIdle
FilterSpec == FilterStart /\ [][FilterNext]_vars

CastFrame ==
    UNCHANGED <<joinVars, connVars, schemaVars, eagerVars, lazyVars, popVars,
                cacheVars, fixVars, condVars, quoteVars, mysqlVars,
                columnVars, migrateVars>>
CastNext ==
    \/ typecast /\ CastFrame
CastStart ==
    JoinInit /\ ConnInit /\ SchemaIdle /\ EagerIdle /\ LazyIdle /\
    PopulateIdle /\ CacheIdle /\ FixIdle /\ CondIdle /\ CastInit /\
    QuoteIdle /\ MysqlIdle /\ ColumnIdle /\ MigrateIdle
CastSpec == CastStart /\ [][CastNext]_vars

QuoteFrame ==
    UNCHANGED <<joinVars, connVars, schemaVars, eagerVars, lazyVars, popVars,
                cacheVars, fixVars, condVars, castVars, mysqlVars, columnVars,
                migrateVars>>
QuoteNext ==
    \/ quoteTableName /\ QuoteFrame
QuoteStart ==
    JoinInit /\ ConnInit /\ SchemaIdle /\ EagerIdle /\ LazyIdle /\
    PopulateIdle /\ CacheIdle /\ FixIdle /\ CondIdle /\ CastIdle /\
    QuoteInit /\ MysqlIdle /\ ColumnIdle /\ MigrateIdle
QuoteSpec == QuoteStart /\ [][QuoteNext]_vars

\* The methods of the MySQL query builder, over a schema that has loaded some tables.
MysqlFrame ==
    UNCHANGED <<joinVars, connVars, schemaVars, eagerVars, lazyVars, popVars,
                fixVars, condVars, castVars, quoteVars, columnVars,
                migrateVars>>
MysqlNext ==
    \/ \E limit \in Limits, offset \in Limits : buildLimit(limit, offset) /\ MysqlFrame
    \/ \E enable \in { Omitted, GivenBool(TRUE), GivenBool(FALSE) } : checkIntegrity(enable) /\ MysqlFrame
    \/ \E tableName \in LoadNames, value \in Limits :
          resetSequence(tableName, value) /\ MysqlFrame
    \/ \E value \in Limits : resetSequenceDone(value) /\ MysqlFrame
    \/ \E table \in LoadNames, oldName \in OldNames, newName \in NewNames :
          renameColumn(table, oldName, newName) /\ MysqlFrame
    \/ renameColumnDone /\ MysqlFrame
MysqlStart ==
    JoinInit /\ ConnInit /\ SchemaIdle /\ EagerIdle /\ LazyIdle /\
    PopulateIdle /\ MysqlCacheInit /\ FixIdle /\ CondIdle /\ CastIdle /\
    QuoteIdle /\ MysqlInit /\ ColumnIdle /\ MigrateIdle
MysqlSpec == MysqlStart /\ [][MysqlNext]_vars

\* The calls on a column schema builder in every order, and its string.
ColumnFrame ==
    UNCHANGED <<joinVars, connVars, schemaVars, eagerVars, lazyVars, popVars,
                cacheVars, fixVars, condVars, castVars, quoteVars, mysqlVars,
                migrateVars>>
ColumnNext ==
    \/ notNull /\ ColumnFrame
    \/ unique /\ ColumnFrame
    \/ \E sql \in BuilderChecks : check(sql) /\ ColumnFrame
    \/ \E value \in BuilderDefaults : defaultValue(value) /\ ColumnFrame
    \/ toString /\ ColumnFrame
ColumnStart ==
    JoinInit /\ ConnInit /\ SchemaIdle /\ EagerIdle /\ LazyIdle /\
    PopulateIdle /\ CacheIdle /\ FixIdle /\ CondIdle /\ CastIdle /\
    QuoteIdle /\ MysqlIdle /\ ColumnInit /\ MigrateIdle
ColumnSpec == ColumnStart /\ [][ColumnNext]_vars

\* Two findFor() on the relation query, the second at any time, also while the prepare() of the first is under way; the steps of the two prepare() in every order.
ConcurrentFrame ==
    UNCHANGED <<joinVars, connVars, schemaVars, eagerVars, popVars, cacheVars,
                fixVars, condVars, castVars, quoteVars, mysqlVars, columnVars,
                migrateVars>>
ConcurrentNext ==
    \/ findFor /\ Len(calls) < 2 /\ ConcurrentFrame
    \/ \E c \in DOMAIN calls : prepareClone(c) /\ ConcurrentFrame
    \/ \E c \in DOMAIN calls : prepareFilter(c) /\ ConcurrentFrame
    \/ \E c \in DOMAIN calls : prepareViaDone(c) /\ ConcurrentFrame
    \/ \E c \in DOMAIN calls : prepareFinish(c) /\ ConcurrentFrame
ConcurrentStart ==
    JoinInit /\ ConnInit /\ SchemaIdle /\ EagerIdle /\ ConcurrentInit /\
    PopulateIdle /\ CacheIdle /\ FixIdle /\ CondIdle /\ CastIdle /\
    QuoteIdle /\ MysqlIdle /\ ColumnIdle /\ MigrateIdle
ConcurrentSpec == ConcurrentStart /\ [][ConcurrentNext]_vars

\* The migrate command: up or redo from a history, with migrations that succeed or give false.
MigrateFrame ==
    UNCHANGED <<joinVars, connVars, schemaVars, eagerVars, lazyVars, popVars,
                cacheVars, fixVars, condVars, castVars, quoteVars, mysqlVars,
                columnVars>>
MigrateNext ==
    \/ \E limit \in Limits \ { Omitted } : actionUp(limit) /\ MigrateFrame
    \/ \E limit \in Limits : actionRedo(limit) /\ MigrateFrame
    \/ getMigrationHistoryDone /\ MigrateFrame
    \/ \E bool \in BOOLEAN : confirmDone(bool) /\ MigrateFrame
    \/ \E isSuccess \in Returns : upDone(isSuccess) /\ MigrateFrame
    \/ addMigrationHistoryDone /\ MigrateFrame
    \/ \E isSuccess \in Returns : downDone(isSuccess) /\ MigrateFrame
    \/ removeMigrationHistoryDone /\ MigrateFrame
MigrateStart ==
    JoinInit /\ ConnInit /\ SchemaIdle /\ EagerIdle /\ LazyIdle /\
    PopulateIdle /\ CacheIdle /\ FixIdle /\ CondIdle /\ CastIdle /\
    QuoteIdle /\ MysqlIdle /\ ColumnIdle /\ MigrateInit
MigrateSpec == MigrateStart /\ [][MigrateNext]_vars

\* loadTableSchema and getTableSchema for a table under its plain name and its names in {{ }}, over a database that does not change.
TemplateFrame ==
    UNCHANGED <<joinVars, connVars, eagerVars, lazyVars, popVars, fixVars,
                condVars, castVars, quoteVars, mysqlVars, columnVars,
                migrateVars>>
TemplateNext ==
    \/ \E name \in SpelledNames, flag \in BOOLEAN :
          loadTableSchema(name, flag) /\ TemplateFrame
    \/ \E name \in SpelledNames : getTableSchema(name) /\ TemplateFrame
    \/ \E i \in DOMAIN loads : showColumnsDone(i) /\ TemplateFrame
    \/ \E i \in DOMAIN loads : showCreateTableDone(i) /\ TemplateFrame
TemplateStart ==
    JoinInit /\ ConnInit /\ TemplateDbInit /\ EagerIdle /\ LazyIdle /\
    PopulateIdle /\ CacheInit /\ FixIdle /\ CondIdle /\ CastIdle /\
    QuoteIdle /\ MysqlIdle /\ ColumnIdle /\ MigrateIdle
TemplateSpec == TemplateStart /\ [][TemplateNext]_vars

====
